---- MODULE Spec2Model ----
(***************************************************************************)
(* Model of the scenario execution engine of npm-package-tester:           *)
(* ScenarioRunner.runScenario / setupScenario / validateScenario and the   *)
(* DockerManager.executeCommand call they are built on.                    *)
(*                                                                         *)
(* Text is a sequence of string tokens (single characters for process      *)
(* output and file content, longer tokens for the fixed parts of the       *)
(* validator's messages).  A path is a sequence of segments; the string    *)
(* "/test/d1/b.txt" is <<"test", "d1", "b.txt">>.  An optional field of a  *)
(* JavaScript object is a key that is or is not in the record's DOMAIN.    *)
(***************************************************************************)
EXTENDS Integers, Sequences, FiniteSets, TLC

(***************************************************************************)
(* Bounds of the explored inputs.                                          *)
(***************************************************************************)
MaxDirs == 2
MaxFiles == 2
MaxDeps == 2
MaxMatchers == 1
MaxPaths == 1
MaxChecks == 2
MaxExit == 1

(***************************************************************************)
(* Text and path helpers.                                                  *)
(***************************************************************************)
Whitespace == {" ", "\n", "\t"}

RECURSIVE TrimStart(_)
TrimStart(s) ==
  IF s # <<>> /\ Head(s) \in Whitespace THEN TrimStart(Tail(s)) ELSE s

RECURSIVE TrimEnd(_)
TrimEnd(s) ==
  IF s # <<>> /\ s[Len(s)] \in Whitespace
  THEN TrimEnd(SubSeq(s, 1, Len(s) - 1))
  ELSE s

\* String.prototype.trim
Trim(s) == TrimEnd(TrimStart(s))

\* String.prototype.includes
Includes(s, p) ==
  \E i \in 0..(Len(s) - Len(p)) : SubSeq(s, i + 1, i + Len(p)) = p

\* String.prototype.startsWith, the behaviour of a pattern anchored with ^
StartsWith(s, p) == Len(p) <= Len(s) /\ SubSeq(s, 1, Len(p)) = p

RECURSIVE Flatten(_)
Flatten(ss) == IF ss = <<>> THEN <<>> ELSE Head(ss) \o Flatten(Tail(ss))

\* Array.prototype.join
RECURSIVE Join(_, _)
Join(parts, sep) ==
  IF parts = <<>> THEN <<>>
  ELSE IF Len(parts) = 1 THEN Head(parts)
  ELSE Head(parts) \o <<sep>> \o Join(Tail(parts), sep)

\* The working root of the container: "/test"
TestRoot == <<"test">>

\* `/test/${p}`
InTestRoot(p) == TestRoot \o p

\* filePath.substring(0, filePath.lastIndexOf('/'))
parentDir(filePath) == SubSeq(filePath, 1, Len(filePath) - 1)

\* A relative path as it is interpolated into a message
PathText(p) == Join([i \in 1..Len(p) |-> <<p[i]>>], "/")

\* The objects that have, or do not have, the optional field f
Optional(f, S) == {<<>>} \cup {f :> v : v \in S}

Has(obj, f) == f \in DOMAIN obj

(***************************************************************************)
(* Matchers: a literal string or a RegExp.  The patterns explored are      *)
(* literal sources with an optional ^ anchor.                              *)
(***************************************************************************)
Literal(t) == [type |-> "string", text |-> t]
Pattern(t, a) == [type |-> "regexp", text |-> t, anchored |-> a]

\* RegExp.prototype.test
RegExpTest(m, s) ==
  IF m.anchored THEN StartsWith(s, m.text) ELSE Includes(s, m.text)

\* `${pattern}` of a RegExp
RegExpText(m) ==
  <<"/">> \o (IF m.anchored THEN <<"^">> ELSE <<>>) \o m.text \o <<"/">>

Matches(m, s) ==
  IF m.type = "string" THEN Includes(s, m.text) ELSE RegExpTest(m, s)

(***************************************************************************)
(* The scenarios explored (TestScenario, TestSetup, TestValidation).       *)
(***************************************************************************)
\* Declared directories d1, d2, ...
DirAt(i) == <<"d" \o ToString(i)>>

\* Declared files, alternately in a sub-directory and directly in the
\* working root, starting with either
NestedFile(i) ==
  [path |-> <<"d" \o ToString(i), "b.txt">>, content |-> <<"o", "k", "\n">>]
RootFile(i) ==
  [path |-> <<"a" \o ToString(i) \o ".txt">>, content |-> <<"o", "k">>]
FileAtNestedFirst(i) == IF i % 2 = 1 THEN NestedFile(i) ELSE RootFile(i)
FileAtRootFirst(i) == IF i % 2 = 1 THEN RootFile(i) ELSE NestedFile(i)

DepAt(i) == "dep" \o ToString(i)

ExitCodes == 0..MaxExit

DirLists == {[i \in 1..k |-> DirAt(i)] : k \in 0..MaxDirs}

FileLists ==
  {[i \in 1..k |-> FileAtNestedFirst(i)] : k \in 0..MaxFiles}
    \cup {[i \in 1..k |-> FileAtRootFirst(i)] : k \in 1..MaxFiles}

DepLists == {[i \in 1..k |-> DepAt(i)] : k \in 0..MaxDeps}

Setups ==
  { d @@ f @@ n @@ p :
      d \in Optional("directories", DirLists),
      f \in Optional("files", FileLists),
      n \in Optional("initNpm", BOOLEAN),
      p \in Optional("dependencies", DepLists) }

OutTxt == <<"out.txt">>

\* A setup that creates the file the command may also create
SmallSetup ==
  [files |-> << [path |-> OutTxt, content |-> <<"o", "k">>] >>]

Hi == <<"h", "i">>
Oops == <<"o", "o", "p", "s">>

\* Matchers for stdout, alternately a literal and a pattern
MatcherAtLiteralFirst(i) ==
  IF i % 2 = 1 THEN Literal(Hi) ELSE Pattern(Hi, TRUE)
MatcherAtPatternFirst(i) ==
  IF i % 2 = 1 THEN Pattern(Hi, TRUE) ELSE Literal(Hi)

\* Paths for filesExist: the file the command may write, then files nobody
\* writes
PathAt(i) == IF i = 1 THEN OutTxt ELSE <<"a" \o ToString(i) \o ".txt">>

EqualsCheck == [path |-> OutTxt, equals |-> <<"o", "k">>]
ContainsCheck ==
  [path |-> OutTxt, contains |-> <<Literal(<<"o">>)>>,
   notContains |-> <<Pattern(<<"k">>, FALSE)>>]
\* An entry with all three kinds of check: an expected text the file never
\* has, a literal that ends with the newline of the file, and a literal
\* the file has
MixedCheck ==
  [path |-> OutTxt, equals |-> <<"n", "o">>,
   contains |-> <<Literal(<<"k", "\n">>)>>,
   notContains |-> <<Literal(<<"o">>)>>]
CheckAtEqualsFirst(i) == IF i % 2 = 1 THEN EqualsCheck ELSE ContainsCheck
CheckAtMixedFirst(i) == IF i % 2 = 1 THEN MixedCheck ELSE EqualsCheck
CheckAtContainsFirst(i) == IF i % 2 = 1 THEN ContainsCheck ELSE EqualsCheck

PathLists == {[i \in 1..k |-> PathAt(i)] : k \in 1..MaxPaths}

CheckLists ==
  {[i \in 1..k |-> CheckAtEqualsFirst(i)] : k \in 1..MaxChecks}
    \cup {[i \in 1..k |-> CheckAtContainsFirst(i)] : k \in 1..MaxChecks}
    \cup {[i \in 1..k |-> CheckAtMixedFirst(i)] : k \in 1..MaxChecks}

MatcherLists ==
  {[i \in 1..k |-> MatcherAtLiteralFirst(i)] : k \in 1..MaxMatchers}
    \cup {[i \in 1..k |-> MatcherAtPatternFirst(i)] : k \in 1..MaxMatchers}

\* The assertions about the existence of files
ExistenceValidations ==
  { fe @@ fn :
      fe \in Optional("filesExist", PathLists),
      fn \in Optional("filesNotExist", {<<OutTxt>>}) }

\* The assertions about files
FileValidations ==
  { ev @@ fc :
      ev \in ExistenceValidations,
      fc \in Optional("fileContents", CheckLists) }

\* The assertions about the exit code and the output, with or without
\* assertions about the existence of files
Validations ==
  { e @@ so @@ se @@ ev :
      e \in Optional("exitCode", ExitCodes),
      so \in Optional("stdout", MatcherLists),
      se \in Optional("stderr", {<<Literal(Oops)>>}),
      ev \in ExistenceValidations }

BaseScenario == [name |-> "s", command |-> "cli"]

\* Every setup with the empty assertion set; every assertion set without a
\* setup; the assertions about files after the small setup; scenarios with
\* no validate block at all.
Scenarios ==
  { BaseScenario @@ ("setup" :> s) @@ ("validate" :> <<>>) : s \in Setups }
    \cup
  { BaseScenario @@ ("validate" :> v) : v \in Validations \cup FileValidations }
    \cup
  { BaseScenario @@ ("setup" :> SmallSetup) @@ ("validate" :> v) :
      v \in FileValidations }
    \cup
  { BaseScenario @@ s @@ a :
      s \in Optional("setup", {SmallSetup}),
      a \in Optional("args", {<<"run">>}) }

(***************************************************************************)
(* What a process run in the container can do: the exit code docker        *)
(* reports for it (<<>> is a null ExitCode), its output on both channels,  *)
(* and the files it leaves in the working root.                            *)
(***************************************************************************)
NullableExitCodes == {<<c>> : c \in ExitCodes} \cup {<<>>}

\* A command that exits 0 (or with no exit code) prints a greeting on
\* stdout, one that exits non-zero prints a complaint on stderr.
CommandOutcomes ==
  { [exit |-> x,
     out |-> IF x \in {<<0>>, <<>>} THEN Hi \o <<"\n">> ELSE <<>>,
     err |-> IF x \in {<<0>>, <<>>} THEN <<>> ELSE Oops,
     writes |-> w] :
      x \in NullableExitCodes,
      w \in { <<>>, OutTxt :> <<"o", "k", "\n">> } }

(***************************************************************************)
(* State.                                                                  *)
(*   scenario   the TestScenario passed to runScenario                     *)
(*   pc         where runScenario is: "start", "setup", "command",         *)
(*              "validate", "done" (it returned) or "threw" (it rejected)  *)
(*   idx        the next provisioning step (pc = "setup") or the next      *)
(*              validation query (pc = "validate")                         *)
(*   calls      every executeCommand call made so far, in call order: the  *)
(*              phase that made it, the operation, the state of its output *)
(*              stream, whether its promise is pending, returned or raised,*)
(*              the exit code it returned, the error it raised, and what   *)
(*              the process printed on stdout and stderr                   *)
(*   exec       the locals of the executeCommand call in flight            *)
(*   fs         the container's file system below and including /test      *)
(*   errors     the errors array of validateScenario                       *)
(*   cmdResult  the result of the command under test, <<>> before it       *)
(*   result     the CommandTestResult returned, <<>> before the return     *)
(*   caught     <<e>> once runScenario's catch block received message e    *)
(***************************************************************************)
VARIABLES scenario, pc, idx, calls, exec, fs, errors, cmdResult, result, caught

(***************************************************************************)
(* State of a campaign (TestRunner.testPackage).                           *)
(*   config       the Partial<TestConfig> passed to testPackage            *)
(*   packageInfo  <<>> before the analysis, then the PackageInfo           *)
(*   stage        where testPackage is: "idle" (not called), "analyze",    *)
(*                "ping", "version" (head of the loop of runTests),        *)
(*                "install", "generate", "scenario", "tests", "finally",   *)
(*                "returned" or "rejected"                                 *)
(*   loop         the locals of runTests: the index of the node version,   *)
(*                the container of that version, the generated scenarios,  *)
(*                and the indexes of the scenario, command and test        *)
(*   results      the results array of runTests                            *)
(*   outcome      <<>>, the summary about to be returned, or the error     *)
(*                being thrown                                             *)
(*   containers   DockerManager.containers, the ids tracked for cleanup    *)
(*   docker       the daemon: whether it answers, the containers it holds  *)
(*                (status and file system), and how many it has created    *)
(*   trace        what testPackage has done so far, in order               *)
(*   faults       how many processes and calls have deviated so far        *)
(***************************************************************************)
VARIABLES config, packageInfo, stage, loop, results, outcome, containers,
          docker, trace, faults

(***************************************************************************)
(* A second runScenario call, when there is one:                           *)
(*   parked       <<>>, or the call that is not running at the moment: its *)
(*                container, its locals and the file system of its         *)
(*                container                                                *)
(***************************************************************************)
VARIABLE parked

scenarioVars ==
  <<scenario, pc, idx, calls, exec, fs, errors, cmdResult, result, caught>>

campaignVars ==
  <<config, packageInfo, stage, loop, results, outcome, containers, docker,
    trace, faults>>

vars == <<scenarioVars, campaignVars, parked>>

NoLoop ==
  [v |-> 1, container |-> <<>>, answered |-> <<>>, aiScenarios |-> <<>>,
   s |-> 1, c |-> 1, t |-> 1]

\* testPackage has not been called
CampaignIdle ==
  /\ config = <<>>
  /\ packageInfo = <<>>
  /\ stage = "idle"
  /\ loop = NoLoop
  /\ results = <<>>
  /\ outcome = <<>>
  /\ containers = {}
  /\ docker = [up |-> TRUE, created |-> 0, held |-> <<>>]
  /\ trace = <<>>
  /\ faults = 0

NoExec == [pending |-> <<>>, stdout |-> <<>>, stderr |-> <<>>, exit |-> <<>>]

EmptyFs == [dirs |-> {TestRoot}, files |-> <<>>]

(***************************************************************************)
(* setupScenario: the provisioning steps in the order the code issues      *)
(* them.  step = <<group, index, part>> records where a step comes from:   *)
(* group 1 directories, 2 files (part 0 the parent directory, part 1 the   *)
(* write), 3 npm init, 4 the dependency install.                           *)
(***************************************************************************)
(***************************************************************************)
(* The DockerManager helpers setupScenario and validateScenario call.      *)
(* Each is one executeCommand call and rejects when that call rejects:     *)
(* createDirectory runs `mkdir -p <path>`, createFile writes the content   *)
(* through `sh -c`, fileExists runs `test -f <path>`, readFile runs        *)
(* `cat <path>`.                                                           *)
(***************************************************************************)
createDirectory(path) == [kind |-> "mkdir", path |-> path]

createFile(path, content) ==
  [kind |-> "write", path |-> path, content |-> content]

fileExistsCall(path) == [kind |-> "test-f", path |-> path]

readFileCall(path) == [kind |-> "cat", path |-> path]

DirectoryOps(setup) ==
  IF Has(setup, "directories")
  THEN [i \in 1..Len(setup.directories) |->
          [step |-> <<1, i, 0>>]
            @@ createDirectory(InTestRoot(setup.directories[i]))]
  ELSE <<>>

FileOps(file, j) ==
  LET filePath == InTestRoot(file.path)
      parent == parentDir(filePath)
  IN  (IF parent # TestRoot
       THEN <<[step |-> <<2, j, 0>>] @@ createDirectory(parent)>>
       ELSE <<>>)
      \o <<[step |-> <<2, j, 1>>] @@ createFile(filePath, file.content)>>

FilesOps(setup) ==
  IF Has(setup, "files")
  THEN Flatten([j \in 1..Len(setup.files) |-> FileOps(setup.files[j], j)])
  ELSE <<>>

InitNpmOps(setup) ==
  IF Has(setup, "initNpm") /\ setup.initNpm
  THEN <<[kind |-> "npm-init", step |-> <<3, 1, 0>>]>>
  ELSE <<>>

DependencyOpsOneByOne(setup) ==
  IF Has(setup, "dependencies") /\ Len(setup.dependencies) > 0
  THEN [i \in 1..Len(setup.dependencies) |->
          [kind |-> "npm-install", step |-> <<4, i, 0>>,
           deps |-> <<setup.dependencies[i]>>]]
  ELSE <<>>

DependencyOps(setup) ==
  IF Has(setup, "dependencies") /\ Len(setup.dependencies) > 0
  THEN <<[kind |-> "npm-install", step |-> <<4, 1, 0>>,
          deps |-> Join([i \in 1..Len(setup.dependencies) |->
                           <<setup.dependencies[i]>>], " ")]>>
  ELSE <<>>

SetupOpsFilesFirst(setup) ==
  FilesOps(setup) \o DirectoryOps(setup) \o InitNpmOps(setup)
    \o DependencyOps(setup)

SetupOps(setup) ==
  DirectoryOps(setup) \o FilesOps(setup) \o InitNpmOps(setup)
    \o DependencyOps(setup)

\* [scenario.command, ...(scenario.args || [])]
fullCommand(s) ==
  <<s.command>> \o (IF Has(s, "args") THEN s.args ELSE <<>>)

CommandOp(s) == [kind |-> "command", argv |-> fullCommand(s)]

(***************************************************************************)
(* validateScenario: the queries it sends to the container, in order.     *)
(***************************************************************************)
FilesExistQueries(validation) ==
  IF Has(validation, "filesExist")
  THEN [i \in 1..Len(validation.filesExist) |->
          [list |-> "filesExist", n |-> i]
            @@ fileExistsCall(InTestRoot(validation.filesExist[i]))]
  ELSE <<>>

FilesNotExistQueries(validation) ==
  IF Has(validation, "filesNotExist")
  THEN [i \in 1..Len(validation.filesNotExist) |->
          [list |-> "filesNotExist", n |-> i]
            @@ fileExistsCall(InTestRoot(validation.filesNotExist[i]))]
  ELSE <<>>

FileContentsQueries(validation) ==
  IF Has(validation, "fileContents")
  THEN [i \in 1..Len(validation.fileContents) |->
          [list |-> "fileContents", n |-> i]
            @@ readFileCall(InTestRoot(validation.fileContents[i].path))]
  ELSE <<>>

ValidationQueries(validation) ==
  FilesExistQueries(validation) \o FilesNotExistQueries(validation)
    \o FileContentsQueries(validation)

(***************************************************************************)
(* validateScenario: the messages.                                         *)
(***************************************************************************)
expectedExitCodeDefaultOne(validation) ==
  IF Has(validation, "exitCode") THEN validation.exitCode ELSE 1

\* validation.exitCode ?? 0
expectedExitCode(validation) ==
  IF Has(validation, "exitCode") THEN validation.exitCode ELSE 0

ExitCodeErrors(validation, r) ==
  IF r.exitCode # expectedExitCode(validation)
  THEN << <<"Expected exit code ", ToString(expectedExitCode(validation)),
            ", got ", ToString(r.exitCode)>> >>
  ELSE <<>>

\* One stdout or stderr matcher; channel is "Stdout" or "Stderr"
MatcherErrors(m, text, channel) ==
  IF m.type = "string"
  THEN IF ~Includes(text, m.text)
       THEN << <<channel, " missing expected text: \"">> \o m.text
                 \o <<"\"">> >>
       ELSE <<>>
  ELSE IF ~RegExpTest(m, text)
       THEN << <<channel, " doesn't match pattern: ">> \o RegExpText(m) >>
       ELSE <<>>

StdoutErrors(validation, r) ==
  IF Has(validation, "stdout")
  THEN Flatten([i \in 1..Len(validation.stdout) |->
                  MatcherErrors(validation.stdout[i], r.stdout, "Stdout")])
  ELSE <<>>

StderrErrors(validation, r) ==
  IF Has(validation, "stderr")
  THEN Flatten([i \in 1..Len(validation.stderr) |->
                  MatcherErrors(validation.stderr[i], r.stderr, "Stderr")])
  ELSE <<>>

OutputErrorsShortCircuit(validation, r) ==
  IF ExitCodeErrors(validation, r) # <<>>
  THEN ExitCodeErrors(validation, r)
  ELSE StdoutErrors(validation, r) \o StderrErrors(validation, r)

\* The checks validateScenario makes before its first await
OutputErrors(validation, r) ==
  ExitCodeErrors(validation, r) \o StdoutErrors(validation, r)
    \o StderrErrors(validation, r)

\* One filesExist or filesNotExist entry, given the answer of fileExists
FileExistsErrors(validation, q, exists) ==
  IF q.list = "filesExist"
  THEN IF ~exists
       THEN << <<"Expected file not found: ">>
                 \o PathText(validation.filesExist[q.n]) >>
       ELSE <<>>
  ELSE IF exists
       THEN << <<"File should not exist: ">>
                 \o PathText(validation.filesNotExist[q.n]) >>
       ELSE <<>>

EqualsErrors(fileCheck, content) ==
  IF Has(fileCheck, "equals") /\ Trim(content) # Trim(fileCheck.equals)
  THEN << <<"File ">> \o PathText(fileCheck.path)
            \o <<" content doesn't match expected">> >>
  ELSE <<>>

ContainsError(fileCheck, m, content) ==
  IF m.type = "string"
  THEN IF ~Includes(content, m.text)
       THEN << <<"File ">> \o PathText(fileCheck.path)
                 \o <<" missing expected text: \"">> \o m.text \o <<"\"">> >>
       ELSE <<>>
  ELSE IF ~RegExpTest(m, content)
       THEN << <<"File ">> \o PathText(fileCheck.path)
                 \o <<" doesn't match pattern: ">> \o RegExpText(m) >>
       ELSE <<>>

NotContainsError(fileCheck, m, content) ==
  IF m.type = "string"
  THEN IF Includes(content, m.text)
       THEN << <<"File ">> \o PathText(fileCheck.path)
                 \o <<" contains unexpected text: \"">> \o m.text
                 \o <<"\"">> >>
       ELSE <<>>
  ELSE IF RegExpTest(m, content)
       THEN << <<"File ">> \o PathText(fileCheck.path)
                 \o <<" matches unexpected pattern: ">> \o RegExpText(m) >>
       ELSE <<>>

\* One fileContents entry whose file was read
FileContentErrors(fileCheck, content) ==
  EqualsErrors(fileCheck, content)
    \o (IF Has(fileCheck, "contains")
        THEN Flatten([i \in 1..Len(fileCheck.contains) |->
                        ContainsError(fileCheck, fileCheck.contains[i],
                                      content)])
        ELSE <<>>)
    \o (IF Has(fileCheck, "notContains")
        THEN Flatten([i \in 1..Len(fileCheck.notContains) |->
                        NotContainsError(fileCheck, fileCheck.notContains[i],
                                         content)])
        ELSE <<>>)

\* The catch block around one fileContents entry
ReadFailedError(path, e) ==
  <<"Failed to read file ">> \o PathText(path) \o <<": ">> \o e

ValidationResultFirstError(errs) ==
  IF Len(errs) > 0
  THEN [passed |-> FALSE, error |-> errs[1]]
  ELSE [passed |-> TRUE]

\* The verdict of validateScenario
ValidationResult(errs) ==
  IF Len(errs) > 0
  THEN [passed |-> FALSE, error |-> Join(errs, "; ")]
  ELSE [passed |-> TRUE]

(***************************************************************************)
(* runScenario: its try block and its two return statements.               *)
(***************************************************************************)
InTryBeforeValidation(phase) == phase \in {"setup", "command"}

\* The phases whose exceptions the try block of runScenario receives
InTry(phase) == phase \in {"setup", "command", "validate"}

\* The return statement of the try block
ScenarioResult(validationResult, r) ==
  [passed |-> validationResult.passed, exitCode |-> r.exitCode,
   stdout |-> r.stdout, stderr |-> r.stderr,
   hasHelpOutput |-> FALSE, hasVersionOutput |-> FALSE]
    @@ (IF Has(validationResult, "error")
        THEN [error |-> validationResult.error]
        ELSE <<>>)

FailedResultExitZero(e) ==
  [passed |-> FALSE, exitCode |-> 0, stdout |-> <<>>, stderr |-> e,
   error |-> e, hasHelpOutput |-> FALSE, hasVersionOutput |-> FALSE]

\* The return statement of the catch block
FailedResult(e) ==
  [passed |-> FALSE, exitCode |-> 1, stdout |-> <<>>, stderr |-> e,
   error |-> e, hasHelpOutput |-> FALSE, hasVersionOutput |-> FALSE]

\* Reading validation.exitCode when scenario.validate is undefined
TypeErrorMessage ==
  <<"Cannot read properties of undefined (reading 'exitCode')">>

(***************************************************************************)
(* The container: what each process does to the file system and what it   *)
(* prints.  mkdir -p and the file write succeed when they can; npm may     *)
(* fail; the command under test does whatever CommandOutcomes allows.      *)
(***************************************************************************)
Prefixes(path) == {SubSeq(path, 1, k) : k \in 1..Len(path)}

NoSuchFile == <<"N", "o", " ", "s", "u", "c", "h", " ", "f", "i", "l", "e">>

PackageJson == TestRoot \o <<"package.json">>
NodeModules == TestRoot \o <<"node_modules">>

Outcome(x, o, e, f) == [exit |-> x, out |-> o, err |-> e, fs |-> f]

RootedWrites(w) == [q \in {InTestRoot(k) : k \in DOMAIN w} |-> w[Tail(q)]]

ProcessOutcomes(op, f) ==
  CASE op.kind = "mkdir" ->
         {Outcome(<<0>>, <<>>, <<>>,
                  [f EXCEPT !.dirs = @ \cup Prefixes(op.path)])}
    [] op.kind = "write" ->
         IF parentDir(op.path) \in f.dirs
         THEN {Outcome(<<0>>, <<>>, <<>>,
                       [f EXCEPT !.files = (op.path :> op.content) @@ @])}
         ELSE {Outcome(<<1>>, <<>>, NoSuchFile, f)}
    [] op.kind = "npm-init" ->
         {Outcome(<<0>>, <<>>, <<>>,
                  [f EXCEPT !.files = (PackageJson :> <<"{", "}">>) @@ @])}
           \cup {Outcome(<<x>>, <<>>, Oops, f) : x \in ExitCodes \ {0}}
    [] op.kind = "npm-install" ->
         {Outcome(<<0>>, <<>>, <<>>,
                  [f EXCEPT !.dirs = @ \cup {NodeModules}])}
           \cup {Outcome(<<x>>, <<>>, Oops, f) : x \in ExitCodes \ {0}}
    [] op.kind = "command" ->
         {Outcome(c.exit, c.out, c.err,
                  [f EXCEPT !.files = RootedWrites(c.writes) @@ @]) :
            c \in CommandOutcomes}
    [] op.kind = "test-f" ->
         {Outcome(IF op.path \in DOMAIN f.files THEN <<0>> ELSE <<1>>,
                  <<>>, <<>>, f)}
    [] op.kind = "cat" ->
         IF op.path \in DOMAIN f.files
         THEN {Outcome(<<0>>, f.files[op.path], <<>>, f)}
         ELSE {Outcome(<<1>>, <<>>, NoSuchFile, f)}

(***************************************************************************)
(* DockerManager.executeCommand.                                           *)
(***************************************************************************)
\* One frame of the multiplexed stream: 8 header bytes, then the payload
Chunk(tag, payload) ==
  [header |-> <<tag, 0, 0, 0, 0, 0, 0, Len(payload)>>, payload |-> payload]

ChunkLength(c) == Len(c.header) + Len(c.payload)

Frames(out, err) ==
  (IF out # <<>> THEN <<Chunk(1, out)>> ELSE <<>>)
    \o (IF err # <<>> THEN <<Chunk(2, err)>> ELSE <<>>)

\* stream.on('data', ...)
OnData(e, chunk) ==
  IF ChunkLength(chunk) > 8
  THEN IF chunk.header[1] = 1
       THEN [e EXCEPT !.stdout = @ \o chunk.payload]
       ELSE IF chunk.header[1] = 2
            THEN [e EXCEPT !.stderr = @ \o chunk.payload]
            ELSE e
  ELSE e

ResolvedOnOpen(call) == call.stream \in {"open", "ended"}

\* The promise executeCommand awaits resolves on the stream's 'end' event
Resolved(call) == call.stream = "ended"

\* inspectResult.ExitCode ?? 0, and the trimmed buffers
ExecResult(e) ==
  [exitCode |-> IF e.exit = <<>> THEN 0 ELSE e.exit[1],
   stdout |-> Trim(e.stdout), stderr |-> Trim(e.stderr)]

StartErrors == { <<"no such container">> }
StreamErrors == { <<"stream broke">> }
InspectErrors == { <<"inspect failed">> }

(***************************************************************************)
(* Control flow of runScenario.                                            *)
(***************************************************************************)
Cur == calls[Len(calls)]

\* An executeCommand call has been made and its promise is not settled
InFlight == calls # <<>> /\ Cur.status = "pending"

SetCur(c) == [calls EXCEPT ![Len(calls)] = c]

Queries == ValidationQueries(scenario.validate)

\* The call the code makes next
NextOp ==
  CASE pc = "setup" -> SetupOps(scenario.setup)[idx]
    [] pc = "command" -> CommandOp(scenario)
    [] pc = "validate" -> Queries[idx]

\* Where runScenario is once provisioning step i - 1 has returned
AfterSetupStep(i) ==
  IF i > Len(SetupOps(scenario.setup)) THEN "command" ELSE "setup"

CaughtLocallyNever(op) == FALSE

CaughtLocallyOrMkdir(op) == op.kind \in {"cat", "mkdir"}

CaughtLocallyOrTest(op) == op.kind \in {"cat", "test-f"}

\* The calls made inside the try/catch of one fileContents entry
CaughtLocally(op) == op.kind = "cat"

\* The catch block of runScenario
Catch(phase, e) ==
  /\ pc' = IF InTry(phase) THEN "done" ELSE "threw"
  /\ result' = IF InTry(phase) THEN FailedResult(e) ELSE result
  /\ caught' = IF InTry(phase) THEN <<e>> ELSE caught
  /\ UNCHANGED <<idx, errors>>

\* An exception raised by the call of op, made in the given phase
Throw(phase, op, e) ==
  IF CaughtLocally(op)
  THEN /\ errors' = Append(errors, ReadFailedError(Tail(op.path), e))
       /\ idx' = idx + 1
       /\ pc' = IF phase = "setup" THEN AfterSetupStep(idx + 1) ELSE pc
       /\ UNCHANGED <<result, caught>>
  ELSE Catch(phase, e)

NewCall(op) ==
  [phase |-> pc, op |-> op, stream |-> "none", status |-> "pending",
   exitCode |-> <<>>, err |-> <<>>, printed |-> <<>>]

CanCall ==
  /\ pc \in {"setup", "command", "validate"}
  /\ ~InFlight
  /\ pc = "validate" => idx <= Len(Queries)

Init ==
  /\ scenario \in Scenarios
  /\ pc = "start"
  /\ idx = 1
  /\ calls = <<>>
  /\ exec = NoExec
  /\ fs = EmptyFs
  /\ errors = <<>>
  /\ cmdResult = <<>>
  /\ result = <<>>
  /\ caught = <<>>
  /\ parked = <<>>
  /\ CampaignIdle

\* runScenario is called: if (scenario.setup) setupScenario(...)
Begin ==
  /\ pc = "start"
  /\ pc' = IF Has(scenario, "setup") THEN AfterSetupStep(1) ELSE "command"
  /\ UNCHANGED <<campaignVars, parked>>
  /\ UNCHANGED <<scenario, idx, calls, exec, fs, errors, cmdResult, result,
                 caught>>

\* executeCommand: container.exec and exec.start succeed, the process runs
ExecStart ==
  /\ CanCall
  /\ \E o \in ProcessOutcomes(NextOp, fs) :
       /\ calls' = Append(calls, [NewCall(NextOp) EXCEPT
                                    !.stream = "open",
                                    !.printed = <<o.out, o.err>>])
       /\ exec' = [pending |-> Frames(o.out, o.err), stdout |-> <<>>,
                   stderr |-> <<>>, exit |-> o.exit]
       /\ fs' = o.fs
  /\ UNCHANGED <<campaignVars, parked>>
  /\ UNCHANGED <<scenario, pc, idx, errors, cmdResult, result, caught>>

\* executeCommand: container.exec or exec.start rejects
ExecStartFails ==
  /\ CanCall
  /\ \E e \in StartErrors :
       /\ calls' = Append(calls, [NewCall(NextOp) EXCEPT
                                    !.status = "raised", !.err = <<e>>])
       /\ Throw(pc, NextOp, e)
  /\ UNCHANGED <<campaignVars, parked>>
  /\ UNCHANGED <<scenario, exec, fs, cmdResult>>

\* stream 'data'
StreamData ==
  /\ InFlight
  /\ Cur.stream = "open"
  /\ exec.pending # <<>>
  /\ exec' = OnData([exec EXCEPT !.pending = Tail(@)], Head(exec.pending))
  /\ UNCHANGED <<campaignVars, parked>>
  /\ UNCHANGED <<scenario, pc, idx, calls, fs, errors, cmdResult, result,
                 caught>>

\* stream 'end'
StreamEnd ==
  /\ InFlight
  /\ Cur.stream = "open"
  /\ exec.pending = <<>>
  /\ calls' = SetCur([Cur EXCEPT !.stream = "ended"])
  /\ UNCHANGED <<campaignVars, parked>>
  /\ UNCHANGED <<scenario, pc, idx, exec, fs, errors, cmdResult, result,
                 caught>>

StreamErrorIgnored ==
  /\ InFlight
  /\ Cur.stream = "open"
  /\ calls' = SetCur([Cur EXCEPT !.stream = "error"])
  /\ UNCHANGED <<campaignVars, parked>>
  /\ UNCHANGED <<scenario, pc, idx, exec, fs, errors, cmdResult, result,
                 caught>>

\* stream 'error': the promise rejects
StreamError ==
  /\ InFlight
  /\ Cur.stream = "open"
  /\ \E e \in StreamErrors :
       /\ calls' = SetCur([Cur EXCEPT !.stream = "error",
                                      !.status = "raised", !.err = <<e>>])
       /\ Throw(Cur.phase, Cur.op, e)
  /\ UNCHANGED <<campaignVars, parked>>
  /\ UNCHANGED <<scenario, exec, fs, cmdResult>>

\* exec.inspect rejects
InspectFails ==
  /\ InFlight
  /\ Resolved(Cur)
  /\ \E e \in InspectErrors :
       /\ calls' = SetCur([Cur EXCEPT !.status = "raised", !.err = <<e>>])
       /\ Throw(Cur.phase, Cur.op, e)
  /\ UNCHANGED <<campaignVars, parked>>
  /\ UNCHANGED <<scenario, exec, fs, cmdResult>>

Returned(r) == SetCur([Cur EXCEPT !.status = "returned",
                                  !.exitCode = <<r.exitCode>>])

\* A provisioning call returns; its result is not looked at
SetupStepReturns ==
  /\ InFlight
  /\ Resolved(Cur)
  /\ Cur.phase = "setup"
  /\ calls' = Returned(ExecResult(exec))
  /\ idx' = idx + 1
  /\ pc' = AfterSetupStep(idx + 1)
  /\ UNCHANGED <<campaignVars, parked>>
  /\ UNCHANGED <<scenario, exec, fs, errors, cmdResult, result, caught>>

\* The command under test returns; validateScenario runs to its first await
CommandReturns ==
  /\ InFlight
  /\ Resolved(Cur)
  /\ Cur.op.kind = "command"
  /\ LET r == ExecResult(exec)
     IN  /\ calls' = Returned(r)
         /\ cmdResult' = r
         /\ IF Has(scenario, "validate")
            THEN /\ errors' = OutputErrors(scenario.validate, r)
                 /\ pc' = "validate"
                 /\ idx' = 1
                 /\ UNCHANGED <<result, caught>>
            ELSE Catch("validate", TypeErrorMessage)
  /\ UNCHANGED <<campaignVars, parked>>
  /\ UNCHANGED <<scenario, exec, fs>>

(***************************************************************************)
(* The DockerManager helpers the validator calls.  Each is one             *)
(* executeCommand call: fileExists is `test -f` and answers exitCode = 0,  *)
(* readFile is `cat` and answers the stdout of the call.  Whether readFile *)
(* rejects when cat exits non-zero is left open: both are explored.        *)
(***************************************************************************)
fileExists(r) == r.exitCode = 0

readFile(r) ==
  {[ok |-> TRUE, content |-> r.stdout]}
    \cup (IF r.exitCode # 0
          THEN {[ok |-> FALSE, err |-> r.stderr]}
          ELSE {})

\* fileExists answers a filesExist or filesNotExist query
FileExistsReturns ==
  /\ InFlight
  /\ Resolved(Cur)
  /\ Cur.op.kind = "test-f"
  /\ LET r == ExecResult(exec)
     IN  /\ calls' = Returned(r)
         /\ errors' = errors \o FileExistsErrors(scenario.validate, Cur.op,
                                                 fileExists(r))
  /\ idx' = idx + 1
  /\ UNCHANGED <<campaignVars, parked>>
  /\ UNCHANGED <<scenario, pc, exec, fs, cmdResult, result, caught>>

\* readFile answers; the entry's equals, contains, notContains are checked
ReadFileReturns ==
  /\ InFlight
  /\ Resolved(Cur)
  /\ Cur.op.kind = "cat"
  /\ LET r == ExecResult(exec)
     IN  \E a \in readFile(r) :
           /\ a.ok
           /\ calls' = Returned(r)
           /\ errors' = errors \o FileContentErrors(
                                    scenario.validate.fileContents[Cur.op.n],
                                    a.content)
  /\ idx' = idx + 1
  /\ UNCHANGED <<campaignVars, parked>>
  /\ UNCHANGED <<scenario, pc, exec, fs, cmdResult, result, caught>>

\* readFile rejects although executeCommand returned
ReadFileRejects ==
  /\ InFlight
  /\ Resolved(Cur)
  /\ Cur.op.kind = "cat"
  /\ LET r == ExecResult(exec)
     IN  \E a \in readFile(r) :
           /\ ~a.ok
           /\ calls' = SetCur([Cur EXCEPT !.status = "raised",
                                          !.exitCode = <<r.exitCode>>,
                                          !.err = <<a.err>>])
           /\ Throw(Cur.phase, Cur.op, a.err)
  /\ UNCHANGED <<campaignVars, parked>>
  /\ UNCHANGED <<scenario, exec, fs, cmdResult>>

\* validateScenario returns its verdict and runScenario its result
ValidationReturns ==
  /\ pc = "validate"
  /\ ~InFlight
  /\ idx > Len(Queries)
  /\ result' = ScenarioResult(ValidationResult(errors), cmdResult)
  /\ pc' = "done"
  /\ UNCHANGED <<campaignVars, parked>>
  /\ UNCHANGED <<scenario, idx, calls, exec, fs, errors, cmdResult, caught>>

Next ==
  \/ Begin
  \/ ExecStart
  \/ ExecStartFails
  \/ StreamData
  \/ StreamEnd
  \/ StreamError
  \/ InspectFails
  \/ SetupStepReturns
  \/ CommandReturns
  \/ FileExistsReturns
  \/ ReadFileReturns
  \/ ReadFileRejects
  \/ ValidationReturns

Spec == Init /\ [][Next]_vars

(***************************************************************************)
(* executeCommand on an arbitrary multiplexed stream.  Docker writes the   *)
(* output of a process as frames, 8 header bytes (byte 0 the channel,      *)
(* bytes 4..7 the payload length) followed by the payload, and the socket  *)
(* delivers the bytes of the frames in 'data' chunks cut anywhere.         *)
(***************************************************************************)
MaxFrames == 2
MaxCuts == 1

\* The bytes of one frame
FrameBytes(tag, payload) ==
  <<tag, 0, 0, 0, 0, 0, 0, Len(payload)>> \o payload

\* The payloads explored: "hi" and " h\n"
Payloads == { <<104, 105>>, <<32, 104, 10>> }

Frame(tag, payload) == [tag |-> tag, payload |-> payload]

FramedStreams ==
  UNION { [1..n -> {Frame(t, p) : t \in {1, 2}, p \in Payloads}] :
            n \in 0..MaxFrames }

StreamBytes(frames) ==
  Flatten([i \in DOMAIN frames |->
             FrameBytes(frames[i].tag, frames[i].payload)])

\* Buffer.prototype.toString of one byte
CharOf(b) ==
  CASE b = 104 -> "h"
    [] b = 105 -> "i"
    [] b = 32 -> " "
    [] b = 10 -> "\n"
    [] OTHER -> "\\x" \o ToString(b)

\* Buffer.prototype.toString
toString(bytes) == [i \in DOMAIN bytes |-> CharOf(bytes[i])]

\* A delivered Buffer as OnData reads it: chunk.length, chunk.readUInt8(0)
\* and chunk.slice(8).toString()
AsChunk(bytes) ==
  [header |-> SubSeq(bytes, 1, IF Len(bytes) < 8 THEN Len(bytes) ELSE 8),
   payload |-> toString(SubSeq(bytes, 9, Len(bytes)))]

\* The sets of at most k places where a stream of n bytes may be cut
RECURSIVE CutsUpTo(_, _)
CutsUpTo(n, k) ==
  IF k = 0 THEN {{}}
  ELSE LET fewer == CutsUpTo(n, k - 1)
       IN  fewer \cup {C \cup {x} : C \in fewer, x \in 1..(n - 1)}

\* The places where a stream of n bytes may be cut
CutSets(n) == CutsUpTo(n, MaxCuts)

\* The pieces of the bytes cut after the positions in C
RECURSIVE CutAt(_, _)
CutAt(bytes, C) ==
  IF C = {} THEN <<bytes>>
  ELSE LET c == CHOOSE x \in C : \A y \in C : x <= y
       IN  <<SubSeq(bytes, 1, c)>>
             \o CutAt(SubSeq(bytes, c + 1, Len(bytes)),
                      {y - c : y \in C \ {c}})

\* The 'data' events of a stream: none for an empty stream
Deliveries(bytes, C) ==
  IF bytes = <<>> THEN <<>>
  ELSE LET pieces == CutAt(bytes, C)
       IN  [i \in DOMAIN pieces |-> AsChunk(pieces[i])]

\* What the process wrote on a channel: the payloads of its frames, in order
Written(frames, tag) ==
  toString(Flatten([i \in DOMAIN frames |->
                      IF frames[i].tag = tag THEN frames[i].payload
                      ELSE <<>>]))

\* executeCommand: container.exec and exec.start succeed; the process
\* writes some frames and the socket delivers them in some chunks
ExecStartFramed ==
  /\ CanCall
  /\ \E frames \in FramedStreams :
       \E C \in CutSets(Len(StreamBytes(frames))) :
         LET chunks == Deliveries(StreamBytes(frames), C)
         IN  /\ calls' = Append(calls,
                           [NewCall(NextOp) EXCEPT
                              !.stream = "open",
                              !.printed = <<Written(frames, 1),
                                            Written(frames, 2)>>]
                             @@ [delivered |-> chunks])
             /\ exec' = [pending |-> chunks, stdout |-> <<>>,
                         stderr |-> <<>>, exit |-> <<0>>]
  /\ UNCHANGED <<campaignVars, parked>>
  /\ UNCHANGED <<scenario, pc, idx, fs, errors, cmdResult, result, caught>>

\* runScenario is about to run the command of a scenario with no setup and
\* the empty assertion set
DemuxInit ==
  /\ scenario = BaseScenario @@ ("validate" :> <<>>)
  /\ pc = "command"
  /\ idx = 1
  /\ calls = <<>>
  /\ exec = NoExec
  /\ fs = EmptyFs
  /\ errors = <<>>
  /\ cmdResult = <<>>
  /\ result = <<>>
  /\ caught = <<>>
  /\ parked = <<>>
  /\ CampaignIdle

DemuxNext ==
  \/ ExecStartFramed
  \/ StreamData
  \/ StreamEnd
  \/ StreamError
  \/ InspectFails
  \/ CommandReturns
  \/ ValidationReturns

SpecDemux == DemuxInit /\ [][DemuxNext]_vars

(***************************************************************************)
(* A campaign: TestRunner.testPackage and runTests.  The scenarios and the *)
(* default tests of a campaign run one after the other, so a whole         *)
(* runScenario or testCommand call is one step here: its result and its    *)
(* effect on the container's file system are computed from the same        *)
(* definitions as above, for an executor that either fails at the first    *)
(* call or delivers each frame in one chunk.                               *)
(***************************************************************************)
MaxVersions == 2
MaxCommands == 1
MaxScenarios == 2
MaxFaults == 1

\* What executeCommand returns for a process that ran to its end
ResultOf(o) ==
  ExecResult([stdout |-> o.out, stderr |-> o.err, exit |-> o.exit])

\* 1 when the process did something else than exit with code 0 (for the
\* command of a scenario or a test: and leave the files alone), else 0
Cost(op, f, o) ==
  CASE op.kind = "command" -> IF o.exit # <<0>> \/ o.fs # f THEN 1 ELSE 0
    [] op.kind \in {"npm-init", "npm-install"} ->
         IF o.exit # <<0>> THEN 1 ELSE 0
    [] OTHER -> 0

\* setupScenario run to its end: the file system it leaves
RECURSIVE SetupRuns(_, _)
SetupRuns(ops, f) ==
  IF ops = <<>> THEN {[fs |-> f, faults |-> 0]}
  ELSE UNION { { [fs |-> r.fs,
                  faults |-> r.faults + Cost(Head(ops), f, o)] :
                   r \in SetupRuns(Tail(ops), o.fs) } :
               o \in ProcessOutcomes(Head(ops), f) }

\* The messages of one query of validateScenario
QueryErrors(validation, q, f) ==
  UNION { IF q.kind = "test-f"
          THEN {FileExistsErrors(validation, q, fileExists(ResultOf(o)))}
          ELSE { IF a.ok
                 THEN FileContentErrors(validation.fileContents[q.n],
                                        a.content)
                 ELSE <<ReadFailedError(Tail(q.path), a.err)>> :
                   a \in readFile(ResultOf(o)) } :
          o \in ProcessOutcomes(q, f) }

\* The messages of the queries of validateScenario, in order
RECURSIVE ValidationRuns(_, _, _)
ValidationRuns(validation, qs, f) ==
  IF qs = <<>> THEN {<<>>}
  ELSE { a \o b : a \in QueryErrors(validation, Head(qs), f),
                  b \in ValidationRuns(validation, Tail(qs), f) }

\* runScenario once the command under test has run with outcome o
AfterCommand(s, o, faultsBefore, f) ==
  LET r == ResultOf(o)
      n == faultsBefore + Cost(CommandOp(s), f, o)
  IN  IF Has(s, "validate")
      THEN { [result |->
                ScenarioResult(
                  ValidationResult(OutputErrors(s.validate, r) \o e), r),
              fs |-> o.fs, faults |-> n] :
               e \in ValidationRuns(s.validate,
                                    ValidationQueries(s.validate), o.fs) }
      ELSE {[result |-> FailedResult(TypeErrorMessage), fs |-> o.fs,
             faults |-> n]}

\* runScenario in a container whose file system is f: the result returned
\* and the file system left
ScenarioRuns(s, f) ==
  {[result |-> FailedResult(e), fs |-> f, faults |-> 1] : e \in StartErrors}
    \cup
  UNION { UNION { AfterCommand(s, o, g.faults, g.fs) :
                    o \in ProcessOutcomes(CommandOp(s), g.fs) } :
            g \in IF Has(s, "setup")
                  THEN SetupRuns(SetupOps(s.setup), f)
                  ELSE {[fs |-> f, faults |-> 0]} }

\* The inputs of a campaign
NodeVersionAt(i) == ToString(16 + 2 * i)

NodeVersionLists ==
  {[i \in 1..k |-> NodeVersionAt(i)] : k \in 0..MaxVersions}

CommandAt(i) == [name |-> "cmd" \o ToString(i)]

CommandLists == {[i \in 1..k |-> CommandAt(i)] : k \in 0..MaxCommands}

\* What PackageAnalyzer.analyze may return
PackageInfos == {[name |-> "pkg", commands |-> c] : c \in CommandLists}

\* The configurations testPackage is called with: the empty one, and every
\* choice of node versions with none or one of ai, keepContainers and
\* parallel, with or without skipDefaultTests
Configs ==
  { <<>> } \cup
  { [nodeVersions |-> nv] @@ o @@ sk :
      nv \in NodeVersionLists,
      o \in { <<>>, [ai |-> [provider |-> "anthropic"]],
              [keepContainers |-> TRUE], [parallel |-> TRUE] },
      sk \in Optional("skipDefaultTests", {TRUE}) }

\* prepareConfig
prepareConfig(partial) ==
  [nodeVersions |-> IF Has(partial, "nodeVersions")
                    THEN partial.nodeVersions ELSE <<"20">>,
   parallel |-> IF Has(partial, "parallel") THEN partial.parallel ELSE FALSE,
   keepContainers |-> IF Has(partial, "keepContainers")
                      THEN partial.keepContainers ELSE FALSE,
   skipDefaultTests |-> Has(partial, "skipDefaultTests")
                          /\ partial.skipDefaultTests]
    @@ (IF Has(partial, "ai") THEN [ai |-> partial.ai] ELSE <<>>)

\* The testConfig of testPackage
testConfig == prepareConfig(config)

\* A scenario that leaves a file behind and one that expects none
LeaveFile == BaseScenario @@ ("setup" :> SmallSetup) @@ ("validate" :> <<>>)
ExpectClean ==
  BaseScenario @@ ("validate" :> [filesNotExist |-> <<OutTxt>>])

AiScenarioAt(i) == IF i % 2 = 1 THEN LeaveFile ELSE ExpectClean

\* What the AI provider may return, no scenario or MaxScenarios of them:
\* the provider gives the same answer to every request of a campaign
AiScenarioLists ==
  IF loop.answered # <<>> THEN {loop.answered[1]}
  ELSE {[i \in 1..k |-> AiScenarioAt(i)] : k \in {0, MaxScenarios}}

AnalysisErrors == { <<"Failed to fetch package">> }
DockerUnavailable ==
  <<"Docker is not available. ",
    "Please ensure Docker is installed and running.">>
ProviderErrors == { <<"provider failed">> }
UndefinedCommand ==
  <<"Cannot read properties of undefined (reading 'name')">>

\* info.Id of the n-th container the daemon creates
ContainerId(n) == "c" \o ToString(n)

\* The container of the current node version and its file system
Container == loop.container[1]
ContainerFs == docker.held[Container].fs

nodeVersion == testConfig.nodeVersions[loop.v]

Log(entry) == trace' = Append(trace, entry)

\* throw inside the try block of testPackage
Raise(e) ==
  /\ outcome' = [error |-> e]
  /\ stage' = "finally"

\* The three default tests of a command
DefaultTestsVersionFirst == << <<"--version">>, <<"--help">>, <<>> >>

DefaultTests == << <<"--help">>, <<"--version">>, <<>> >>

\* Where runTests goes after the AI scenarios of a node version
GoToTests(l) ==
  IF ~testConfig.skipDefaultTests /\ packageInfo.commands # <<>>
  THEN /\ stage' = "tests"
       /\ loop' = [l EXCEPT !.c = 1, !.t = 1]
  ELSE /\ stage' = "version"
       /\ loop' = [l EXCEPT !.v = @ + 1]

\* String.prototype.toLowerCase, for the letters processes print here
LowerOf(c) ==
  CASE c = "H" -> "h" [] c = "I" -> "i" [] c = "O" -> "o"
    [] c = "P" -> "p" [] c = "S" -> "s" [] OTHER -> c

toLowerCase(text) == [i \in DOMAIN text |-> LowerOf(text[i])]

hasHelpOutput(stdout, stderr) ==
  LET output == toLowerCase(stdout \o stderr)
  IN  \/ Includes(output, <<"u", "s", "a", "g", "e">>)
      \/ Includes(output, <<"o", "p", "t", "i", "o", "n", "s">>)
      \/ Includes(output, <<"c", "o", "m", "m", "a", "n", "d", "s">>)
      \/ Includes(output, <<"h", "e", "l", "p">>)

Digits == {"0", "1", "2", "3", "4", "5", "6", "7", "8", "9"}

\* /v?\d+\.\d+\.\d+/.test(output)
hasVersionOutput(stdout, stderr) ==
  LET output == toLowerCase(stdout \o stderr)
  IN  \E i, j \in DOMAIN output :
        /\ 1 < i /\ i + 1 < j /\ j < Len(output)
        /\ output[i] = "." /\ output[j] = "."
        /\ \A k \in (i - 1)..(j + 1) : k \in {i, j} \/ output[k] \in Digits

isTestPassedOnZero(r, args) == r.exitCode = 0

isTestPassed(r, args) ==
  IF \E i \in DOMAIN args : args[i] \in {"--help", "--version"}
  THEN r.exitCode = 0
  ELSE r.exitCode = 0 \/ r.exitCode = 1

\* The return statement of the try block of testCommand
TestResult(r, args) ==
  [passed |-> isTestPassed(r, args), exitCode |-> r.exitCode,
   stdout |-> r.stdout, stderr |-> r.stderr,
   hasHelpOutput |-> hasHelpOutput(r.stdout, r.stderr),
   hasVersionOutput |-> hasVersionOutput(r.stdout, r.stderr)]

testCommandUncaught(e) == [returns |-> FALSE, error |-> e]

\* The catch block of testCommand
testCommandCaught(e) == [returns |-> TRUE, result |-> FailedResult(e)]

\* What a command tested with the default arguments does: it leaves the
\* files alone and exits with a code, which may also be the one above the
\* codes a scenario's command exits with
TestOutcomes(op, f) ==
  {x \in ProcessOutcomes(op, f) : x.fs = f /\ x.exit # <<>>}
    \cup {Outcome(<<MaxExit + 1>>, <<>>, Oops, f)}

\* testCommand in a container whose file system is f
TestRuns(argv, args, f) ==
  LET op == [kind |-> "command", argv |-> argv]
  IN  { testCommandCaught(e)
            @@ [fs |-> f, faults |-> 1, did |-> [raised |-> e]] :
          e \in StartErrors }
        \cup
      { [returns |-> TRUE, result |-> TestResult(ResultOf(o), args),
         fs |-> o.fs, faults |-> Cost(op, f, o),
         did |-> [exited |-> o.exit[1]]] :
          o \in TestOutcomes(op, f) }

\* command and nodeVersion of a CommandTestResult
WithContext(r, command, version) ==
  r @@ [command |-> command, nodeVersion |-> version]

SummarySuccessWithResults(rs) ==
  LET passed == Cardinality({i \in DOMAIN rs : rs[i].passed})
      failed == Cardinality({i \in DOMAIN rs : ~rs[i].passed})
  IN  [package |-> packageInfo, results |-> rs, total |-> Len(rs),
       passed |-> passed, failed |-> failed,
       success |-> rs # <<>> /\ \A i \in DOMAIN rs : rs[i].passed]

\* The summary testPackage builds
Summary(rs) ==
  LET passed == Cardinality({i \in DOMAIN rs : rs[i].passed})
      failed == Cardinality({i \in DOMAIN rs : ~rs[i].passed})
  IN  [package |-> packageInfo, results |-> rs, total |-> Len(rs),
       passed |-> passed, failed |-> failed,
       success |-> \A i \in DOMAIN rs : rs[i].passed]

\* No runScenario call of the stepwise account is in progress
ScenarioIdle ==
  /\ scenario = <<>>
  /\ pc = "idle"
  /\ idx = 1
  /\ calls = <<>>
  /\ exec = NoExec
  /\ fs = EmptyFs
  /\ errors = <<>>
  /\ cmdResult = <<>>
  /\ result = <<>>
  /\ caught = <<>>
  /\ parked = <<>>

\* testPackage is called with some configuration; docker answers or not
CampaignInit ==
  /\ ScenarioIdle
  /\ config \in Configs
  /\ packageInfo = <<>>
  /\ stage = "analyze"
  /\ loop = NoLoop
  /\ results = <<>>
  /\ outcome = <<>>
  /\ containers = {}
  /\ docker \in {[up |-> u, created |-> 0, held |-> <<>>] : u \in BOOLEAN}
  /\ trace = <<>>
  /\ faults = 0

\* packageAnalyzer.analyze
Analyze ==
  /\ stage = "analyze"
  /\ \/ \E p \in PackageInfos :
          /\ packageInfo' = p
          /\ stage' = "ping"
          /\ UNCHANGED outcome
     \/ \E e \in AnalysisErrors :
          /\ Raise(e)
          /\ UNCHANGED packageInfo
  /\ Log([kind |-> "analyze"])
  /\ UNCHANGED <<config, loop, results, containers, docker, faults>>
  /\ UNCHANGED <<scenarioVars, parked>>

isDockerAvailableAlways == TRUE

\* DockerManager.isDockerAvailable: docker.ping() resolves or not
isDockerAvailable == docker.up

\* The Docker check of testPackage
CheckDocker ==
  /\ stage = "ping"
  /\ IF isDockerAvailable
     THEN stage' = "version" /\ UNCHANGED outcome
     ELSE Raise(DockerUnavailable)
  /\ Log([kind |-> "ping"])
  /\ UNCHANGED <<config, packageInfo, loop, results, containers, docker,
                 faults>>
  /\ UNCHANGED <<scenarioVars, parked>>

\* runTests has gone through every node version; testPackage builds the
\* summary
RunTestsReturns ==
  /\ stage = "version"
  /\ loop.v > Len(testConfig.nodeVersions)
  /\ outcome' = [summary |-> Summary(results)]
  /\ stage' = "finally"
  /\ UNCHANGED <<config, packageInfo, loop, results, containers, docker,
                 trace, faults>>
  /\ UNCHANGED <<scenarioVars, parked>>

\* createTestContainer: the image is pulled, the container created,
\* inspected, started and tracked
CreateContainer ==
  /\ stage = "version"
  /\ loop.v <= Len(testConfig.nodeVersions)
  /\ docker.up
  /\ LET id == ContainerId(docker.created + 1)
     IN  /\ docker' = [docker EXCEPT
                         !.created = @ + 1,
                         !.held = @ @@ (id :> [status |-> "running",
                                               fs |-> EmptyFs,
                                               nodeVersion |-> nodeVersion])]
         /\ containers' = containers \cup {id}
         /\ loop' = [loop EXCEPT !.container = <<id>>,
                                 !.aiScenarios = <<>>, !.s = 1]
         /\ Log([kind |-> "create", container |-> id,
                 version |-> nodeVersion])
  /\ stage' = "install"
  /\ UNCHANGED <<config, packageInfo, results, outcome, faults>>
  /\ UNCHANGED <<scenarioVars, parked>>

\* createTestContainer raises: at the pull or the creation no container
\* exists, at the inspect or the start one exists and is not tracked
CreateContainerFails ==
  /\ stage = "version"
  /\ loop.v <= Len(testConfig.nodeVersions)
  /\ \E at \in {"pull", "create", "inspect", "start"} :
       /\ ~docker.up => at = "pull"
       /\ docker' =
            IF at \in {"inspect", "start"}
            THEN [docker EXCEPT
                    !.created = @ + 1,
                    !.held = @ @@ (ContainerId(docker.created + 1)
                                     :> [status |-> "created",
                                         fs |-> EmptyFs,
                                         nodeVersion |-> nodeVersion])]
            ELSE docker
       /\ Log([kind |-> "create-failed", at |-> at])
       /\ Raise(<<"docker ", at, " failed">>)
  /\ faults < MaxFaults
  /\ faults' = faults + 1
  /\ UNCHANGED <<config, packageInfo, loop, results, containers>>
  /\ UNCHANGED <<scenarioVars, parked>>

InstallPackageTwice ==
  /\ stage = "install"
  /\ trace' = trace \o <<[kind |-> "install", container |-> Container],
                         [kind |-> "install", container |-> Container]>>
  /\ IF Has(testConfig, "ai")
     THEN stage' = "generate" /\ UNCHANGED loop
     ELSE GoToTests(loop)
  /\ UNCHANGED <<config, packageInfo, results, outcome, containers, docker,
                 faults>>
  /\ UNCHANGED <<scenarioVars, parked>>

\* installPackage: npm install -g runs in the container; the exit code is
\* not looked at, a failure of the executor is thrown on
InstallPackage ==
  /\ stage = "install"
  /\ Log([kind |-> "install", container |-> Container])
  /\ \/ /\ IF Has(testConfig, "ai")
           THEN stage' = "generate" /\ UNCHANGED loop
           ELSE GoToTests(loop)
        /\ UNCHANGED <<outcome, faults>>
     \/ \E e \in StartErrors :
          /\ faults < MaxFaults
          /\ faults' = faults + 1
          /\ Raise(e)
          /\ UNCHANGED loop
  /\ UNCHANGED <<config, packageInfo, results, containers, docker>>
  /\ UNCHANGED <<scenarioVars, parked>>

\* ScenarioGenerator.generateScenarios asks the command for its help when
\* there is a command
HelpCall ==
  IF packageInfo.commands # <<>>
  THEN <<[kind |-> "help", container |-> Container]>>
  ELSE <<>>

ErrorEvent(e) == [kind |-> "event", stage |-> "ERROR", message |-> e]

AiFailedRethrows(done, l, e) ==
  /\ trace' = trace \o done \o <<ErrorEvent(e)>>
  /\ Raise(e)
  /\ loop' = l

\* The catch block around the AI scenarios: an ERROR event, and runTests
\* goes on after the try
AiFailed(done, l, e) ==
  /\ trace' = trace \o done \o <<ErrorEvent(e)>>
  /\ GoToTests(l)
  /\ UNCHANGED outcome

\* The try block around the AI scenarios: the provider returns a list or
\* raises; with a list and no command, reading commands[0].name raises
GenerateScenarios ==
  /\ stage = "generate"
  /\ \/ \E list \in AiScenarioLists :
          LET generated == <<[kind |-> "generated", container |-> Container,
                              n |-> Len(list)]>>
              answered == [loop EXCEPT !.answered = <<list>>]
          IN  /\ IF list = <<>>
                 THEN /\ trace' = trace \o HelpCall \o generated
                      /\ GoToTests(answered)
                      /\ UNCHANGED outcome
                 ELSE IF packageInfo.commands = <<>>
                 THEN AiFailed(HelpCall \o generated, answered,
                               UndefinedCommand)
                 ELSE /\ trace' = trace \o HelpCall \o generated
                      /\ stage' = "scenario"
                      /\ loop' = [answered EXCEPT !.aiScenarios = list,
                                                  !.s = 1]
                      /\ UNCHANGED outcome
              /\ UNCHANGED faults
     \/ \E e \in ProviderErrors :
          /\ faults < MaxFaults
          /\ faults' = faults + 1
          /\ AiFailed(HelpCall, loop, e)
  /\ UNCHANGED <<config, packageInfo, results, containers, docker>>
  /\ UNCHANGED <<scenarioVars, parked>>

\* runScenario in a campaign: the commands under test leave the files as
\* the setup left them
CampaignScenarioRuns(s, f) ==
  LET left == IF Has(s, "setup")
              THEN {g.fs : g \in SetupRuns(SetupOps(s.setup), f)}
              ELSE {f}
  IN  {run \in ScenarioRuns(s, f) : run.fs \in left \cup {f}}

\* One AI scenario: runScenario(container.id, ..., scenario, ...) and
\* results.push
RunScenario ==
  /\ stage = "scenario"
  /\ \E run \in CampaignScenarioRuns(loop.aiScenarios[loop.s], ContainerFs) :
       /\ faults + run.faults <= MaxFaults
       /\ faults' = faults + run.faults
       /\ results' = Append(results,
                            WithContext(run.result, packageInfo.commands[1],
                                        nodeVersion))
       /\ docker' = [docker EXCEPT !.held[Container].fs = run.fs]
  /\ Log([kind |-> "scenario", container |-> Container, n |-> loop.s,
          found |-> ContainerFs, result |-> Len(results) + 1])
  /\ IF loop.s < Len(loop.aiScenarios)
     THEN /\ stage' = "scenario"
          /\ loop' = [loop EXCEPT !.s = @ + 1]
     ELSE GoToTests(loop)
  /\ UNCHANGED <<config, packageInfo, outcome, containers>>
  /\ UNCHANGED <<scenarioVars, parked>>

\* The test executions still in flight when runTests calls testCommand:
\* each call is awaited before the loops go on, whatever config.parallel is
TestsInFlight == {}

\* One default test: testCommand(container.id, command.name, args, ...) and
\* results.push
TestCommand ==
  /\ stage = "tests"
  /\ LET command == packageInfo.commands[loop.c]
         args == DefaultTests[loop.t]
         argv == <<command.name>> \o args
     IN  /\ \E run \in TestRuns(argv, args, ContainerFs) :
              /\ faults + run.faults <= MaxFaults
              /\ faults' = faults + run.faults
              /\ docker' = [docker EXCEPT !.held[Container].fs = run.fs]
              /\ IF run.returns
                 THEN /\ results' =
                           Append(results,
                                  WithContext(run.result, command,
                                              nodeVersion))
                      /\ IF loop.t < Len(DefaultTests)
                         THEN /\ stage' = "tests"
                              /\ loop' = [loop EXCEPT !.t = @ + 1]
                         ELSE IF loop.c < Len(packageInfo.commands)
                         THEN /\ stage' = "tests"
                              /\ loop' = [loop EXCEPT !.c = @ + 1, !.t = 1]
                         ELSE /\ stage' = "version"
                              /\ loop' = [loop EXCEPT !.v = @ + 1]
                      /\ UNCHANGED outcome
                 ELSE /\ Raise(run.error)
                      /\ UNCHANGED <<results, loop>>
              /\ Log([kind |-> "test", container |-> Container,
                      argv |-> argv, version |-> nodeVersion,
                      result |-> Len(results) + 1, did |-> run.did,
                      inFlight |-> TestsInFlight])
  /\ UNCHANGED <<config, packageInfo, containers>>
  /\ UNCHANGED <<scenarioVars, parked>>

\* Array.from(this.containers): the tracked ids in insertion order
Tracked ==
  SelectSeq([n \in 1..docker.created |-> ContainerId(n)],
            LAMBDA id : id \in containers)

RunsCleanupOnSuccess(o) == Has(o, "summary")

\* The finally block of testPackage runs whether the try block returned or
\* threw
RunsCleanup(o) == TRUE

\* The tracked containers, in order, up to the first whose stop or remove
\* fails
RECURSIVE UpToFailure(_, _)
UpToFailure(ids, failing) ==
  IF ids = <<>> THEN <<>>
  ELSE IF Head(ids) \in failing THEN <<Head(ids)>>
  ELSE <<Head(ids)>> \o UpToFailure(Tail(ids), failing)

CleanupContainersUntilFailure(stopFails, removeFails) ==
  LET reached == UpToFailure(Tracked, stopFails \cup removeFails)
      stopped == SelectSeq(reached, LAMBDA id : id \notin stopFails)
      removed == {stopped[i] : i \in DOMAIN stopped} \ removeFails
  IN  /\ trace' = trace
            \o <<[kind |-> "cleanup", keepContainers |-> FALSE]>>
            \o [i \in DOMAIN reached |->
                  [kind |-> "stop", container |-> reached[i],
                   ok |-> reached[i] \notin stopFails]]
            \o [i \in DOMAIN stopped |->
                  [kind |-> "remove", container |-> stopped[i],
                   ok |-> stopped[i] \notin removeFails]]
      /\ docker' = [docker EXCEPT !.held =
                      [id \in (DOMAIN @) \ removed |-> @[id]]]
      /\ containers' = containers \ removed

\* DockerManager.cleanup(false): every tracked container is stopped, then
\* removed; a failure of either is swallowed; the tracked set is cleared
CleanupContainers(stopFails, removeFails) ==
  /\ trace' = trace
       \o <<[kind |-> "cleanup", keepContainers |-> FALSE]>>
       \o [i \in DOMAIN Tracked |->
             [kind |-> "stop", container |-> Tracked[i],
              ok |-> Tracked[i] \notin stopFails]]
       \o [i \in DOMAIN Tracked |->
             [kind |-> "remove", container |-> Tracked[i],
              ok |-> Tracked[i] \notin removeFails]]
  /\ docker' =
       [docker EXCEPT !.held =
          [id \in (DOMAIN @) \ (containers \ removeFails) |->
             IF id \in containers \ stopFails
             THEN [@[id] EXCEPT !.status = "exited"]
             ELSE @[id]]]
  /\ containers' = {}

\* finally: dockerManager.cleanup(config.keepContainers || false), then
\* testPackage returns the summary or rejects with the error
Cleanup ==
  /\ stage = "finally"
  /\ IF ~RunsCleanup(outcome)
     THEN UNCHANGED <<trace, docker, containers, faults>>
     ELSE IF Has(config, "keepContainers") /\ config.keepContainers
     THEN /\ Log([kind |-> "cleanup", keepContainers |-> TRUE])
          /\ UNCHANGED <<docker, containers, faults>>
     ELSE \E stopFails, removeFails \in SUBSET containers :
            /\ faults + Cardinality(stopFails) + Cardinality(removeFails)
                 <= MaxFaults
            /\ faults' = faults + Cardinality(stopFails)
                           + Cardinality(removeFails)
            /\ CleanupContainers(stopFails, removeFails)
  /\ stage' = IF Has(outcome, "summary") THEN "returned" ELSE "rejected"
  /\ UNCHANGED <<config, packageInfo, loop, results, outcome>>
  /\ UNCHANGED <<scenarioVars, parked>>

CampaignNext ==
  \/ Analyze
  \/ CheckDocker
  \/ RunTestsReturns
  \/ CreateContainer
  \/ CreateContainerFails
  \/ InstallPackage
  \/ GenerateScenarios
  \/ RunScenario
  \/ TestCommand
  \/ Cleanup

SpecCampaign == CampaignInit /\ [][CampaignNext]_vars

(***************************************************************************)
(* Properties.                                                             *)
(***************************************************************************)
CallIds == DOMAIN calls

Raised(k) == calls[k].status = "raised"

CommandCalls == {k \in CallIds : calls[k].op.kind = "command"}

\* The provisioning calls that raised
SetupRaises == {k \in CallIds : calls[k].phase = "setup" /\ Raised(k)}

\* C1: when a provisioning step of a scenario with a setup block raises,
\* the command under test is never passed to the executor and the result
\* returned is passed = false, exitCode = 1, empty stdout, and stderr and
\* error both equal to the message of the failure.
C1_SetupFailureSynthesizesResult ==
  \A k \in SetupRaises :
    /\ Has(scenario, "setup")
    /\ CommandCalls = {}
    /\ pc = "done"
    /\ result.passed = FALSE
    /\ result.exitCode = 1
    /\ result.stdout = <<>>
    /\ result.stderr = calls[k].err[1]
    /\ Has(result, "error")
    /\ result.error = calls[k].err[1]

\* A provisioning step other than the first raised
C1_Witness ==
  \E k \in SetupRaises : k > 1 /\ pc = "done"

\* The dependency install calls
InstallCalls == {k \in CallIds : calls[k].op.kind = "npm-install"}

InstallFailed(k) ==
  \/ Raised(k)
  \/ calls[k].status = "returned" /\ calls[k].exitCode # <<0>>

\* C2: when the dependency install of a setup fails, because the executor
\* raises or because the install command exits non-zero, the command under
\* test is never invoked and the result has exitCode = 1 and passed = false.
C2_InstallFailureAborts ==
  \A k \in InstallCalls :
    InstallFailed(k) =>
      /\ CommandCalls = {}
      /\ pc = "done" => (result.exitCode = 1 /\ result.passed = FALSE)

\* Some failure was raised during the run
FailureRaised == caught # <<>> \/ \E k \in CallIds : Raised(k)

\* C3: runScenario never rejects: whatever the provisioner, the executor or
\* the validator raises (also for a scenario with no validate block), the
\* run goes on until a result is returned, and when a failure was raised
\* the result has passed = false.
C3_ErrorBoundary ==
  /\ pc # "threw"
  /\ pc # "done" => ENABLED Next
  /\ pc = "done" =>
       /\ {"passed", "exitCode", "stdout", "stderr"} \subseteq DOMAIN result
       /\ FailureRaised => result.passed = FALSE

\* A scenario with no validate block ran its command and returned
C3_Witness ==
  /\ pc = "done"
  /\ ~Has(scenario, "validate")
  /\ CommandCalls # {}
  /\ caught = <<TypeErrorMessage>>
  /\ result.passed = FALSE

\* validateScenario ran to its end and runScenario returned its verdict
Validated == pc = "done" /\ caught = <<>>

ValidateCalls == {k \in CallIds : calls[k].phase = "validate"}

\* The call that read the file of fileContents entry i
ReadCall(i) ==
  CHOOSE k \in CallIds : calls[k].op.kind = "cat" /\ calls[k].op.n = i

ExitCodeViolations ==
  LET v == scenario.validate
      expected == IF Has(v, "exitCode") THEN v.exitCode ELSE 0
  IN  IF cmdResult.exitCode = expected THEN 0 ELSE 1

\* The matchers of field f that do not match the text
MatcherViolations(f, text) ==
  LET v == scenario.validate
  IN  IF Has(v, f)
      THEN Cardinality({i \in DOMAIN v[f] : ~Matches(v[f][i], text)})
      ELSE 0

FilesExistViolations ==
  LET v == scenario.validate
  IN  IF Has(v, "filesExist")
      THEN Cardinality({i \in DOMAIN v.filesExist :
                          InTestRoot(v.filesExist[i]) \notin DOMAIN fs.files})
      ELSE 0

FilesNotExistViolations ==
  LET v == scenario.validate
  IN  IF Has(v, "filesNotExist")
      THEN Cardinality({i \in DOMAIN v.filesNotExist :
                          InTestRoot(v.filesNotExist[i]) \in DOMAIN fs.files})
      ELSE 0

\* The violated assertions of fileContents entry i: one when the read
\* raised, otherwise those that the text the read returned does not satisfy
FileContentViolations(i) ==
  LET c == scenario.validate.fileContents[i]
      k == ReadCall(i)
      text == Trim(calls[k].printed[1])
  IN  IF Raised(k) THEN 1
      ELSE (IF Has(c, "equals") /\ Trim(text) # Trim(c.equals) THEN 1 ELSE 0)
           + (IF Has(c, "contains")
              THEN Cardinality({j \in DOMAIN c.contains :
                                  ~Matches(c.contains[j], text)})
              ELSE 0)
           + (IF Has(c, "notContains")
              THEN Cardinality({j \in DOMAIN c.notContains :
                                  Matches(c.notContains[j], text)})
              ELSE 0)

\* The violated assertions of the first n fileContents entries
RECURSIVE FileContentsViolationsUpTo(_)
FileContentsViolationsUpTo(n) ==
  IF n = 0 THEN 0
  ELSE FileContentViolations(n) + FileContentsViolationsUpTo(n - 1)

FileContentsViolations ==
  LET v == scenario.validate
  IN  IF Has(v, "fileContents")
      THEN FileContentsViolationsUpTo(Len(v.fileContents))
      ELSE 0

\* C4: the validator is collect-all.  When validation runs to its end,
\* every query of filesExist, filesNotExist and fileContents has been sent
\* whatever failed before it, and the number of messages is the number of
\* violated assertions over all six categories.
C4_CollectAll ==
  Validated =>
    /\ Cardinality(ValidateCalls) = Len(Queries)
    /\ Len(errors) = ExitCodeViolations
                       + MatcherViolations("stdout", cmdResult.stdout)
                       + MatcherViolations("stderr", cmdResult.stderr)
                       + FilesExistViolations
                       + FilesNotExistViolations
                       + FileContentsViolations

\* An exit-code mismatch, one unmatched stdout matcher and one missing
\* file, and nothing else: three messages
C4_Witness ==
  /\ Validated
  /\ ExitCodeViolations = 1
  /\ MatcherViolations("stdout", cmdResult.stdout) = 1
  /\ FilesExistViolations = 1
  /\ Len(errors) = 3

\* The pieces of a text between the separator tokens
RECURSIVE SplitOn(_, _)
SplitOn(text, sep) ==
  IF \E i \in DOMAIN text : text[i] = sep
  THEN LET i == CHOOSE n \in DOMAIN text :
                  /\ text[n] = sep
                  /\ \A m \in 1..(n - 1) : text[m] # sep
       IN  <<SubSeq(text, 1, i - 1)>>
             \o SplitOn(SubSeq(text, i + 1, Len(text)), sep)
  ELSE <<text>>

\* The category a message belongs to, by how it begins
CategoryRank(msg) ==
  CASE Head(msg) = "Expected exit code " -> 1
    [] Head(msg) = "Stdout" -> 2
    [] Head(msg) = "Stderr" -> 3
    [] Head(msg) = "Expected file not found: " -> 4
    [] Head(msg) = "File should not exist: " -> 5
    [] Head(msg) \in {"File ", "Failed to read file "} -> 6

\* C5: the verdict is passed exactly when no message was collected; error
\* is the messages joined with "; " in category order when there is one and
\* absent when there is none; the result returned carries this verdict
\* next to the command's exit code and output.
C5_Verdict ==
  Validated =>
    /\ result.passed = (Len(errors) = 0)
    /\ Has(result, "error") = (Len(errors) > 0)
    /\ Has(result, "error") => SplitOn(result.error, "; ") = errors
    /\ \A i, j \in DOMAIN errors :
         i < j => CategoryRank(errors[i]) <= CategoryRank(errors[j])
    /\ result.exitCode = cmdResult.exitCode
    /\ result.stdout = cmdResult.stdout
    /\ result.stderr = cmdResult.stderr

\* Messages of at least three categories were joined
C5_Witness ==
  /\ Validated
  /\ Cardinality({CategoryRank(errors[i]) : i \in DOMAIN errors}) >= 3
  /\ Has(result, "error")

\* C6: with no exitCode field the expected exit code is 0.  An exit code
\* other than 0 gives exactly one message, naming expected 0 and the actual
\* code; with no other assertion, exit code 0 passes and any other fails
\* with that message alone.
C6_DefaultExitCode ==
  (Validated /\ ~Has(scenario.validate, "exitCode")) =>
    LET actual == cmdResult.exitCode
        msg == <<"Expected exit code ", "0", ", got ", ToString(actual)>>
    IN  /\ (\E i \in DOMAIN errors : CategoryRank(errors[i]) = 1)
             = (actual # 0)
        /\ actual # 0 => errors[1] = msg
        /\ DOMAIN scenario.validate = {} =>
             /\ result.passed = (actual = 0)
             /\ actual # 0 => (errors = <<msg>> /\ result.error = msg)
             /\ actual = 0 => ~Has(result, "error")

\* The empty assertion set and a command that exited non-zero
C6_Witness ==
  /\ Validated
  /\ DOMAIN scenario.validate = {}
  /\ cmdResult.exitCode # 0
  /\ result.passed = FALSE

\* The calls whose promise has not settled
PendingCalls == {k \in CallIds : calls[k].status = "pending"}

PhaseRank(phase) ==
  CASE phase = "setup" -> 1 [] phase = "command" -> 2 [] phase = "validate" -> 3

\* C7: the phases of one run are strictly ordered.  At most one executor
\* call is in flight; when a call is made every earlier call has settled,
\* and one that returned had its stream ended, its whole output delivered
\* and its exit code read; no setup call follows the command and no
\* command or setup call follows a validation query.
C7_PhasesOrdered ==
  /\ Cardinality(PendingCalls) <= 1
  /\ \A k \in CallIds :
       k < Len(calls) =>
         /\ calls[k].status # "pending"
         /\ calls[k].status = "returned" =>
              /\ calls[k].stream = "ended"
              /\ calls[k].exitCode # <<>>
  /\ \A i, j \in CallIds :
       i < j => PhaseRank(calls[i].phase) <= PhaseRank(calls[j].phase)
  /\ Cardinality(CommandCalls) <= 1
  /\ pc \in {"validate", "done"} /\ cmdResult # <<>> =>
       \A k \in CommandCalls :
         /\ cmdResult.stdout = Trim(calls[k].printed[1])
         /\ cmdResult.stderr = Trim(calls[k].printed[2])

\* A run with provisioning calls, the command and validation queries
C7_Witness ==
  /\ pc = "done"
  /\ \E i, j, k \in CallIds :
       /\ calls[i].phase = "setup"
       /\ calls[j].phase = "command"
       /\ calls[k].phase = "validate"
       /\ calls[j].printed[1] # <<>>

SetupCalls == {k \in CallIds : calls[k].phase = "setup"}

Step(k) == calls[k].op.step

\* The order of the provisioning steps: directories, files (the parent
\* directory before the write), npm init, the dependency install
StepBefore(a, b) ==
  \/ a[1] < b[1]
  \/ a[1] = b[1] /\ a[2] < b[2]
  \/ a[1] = b[1] /\ a[2] = b[2] /\ a[3] < b[3]

\* Provisioning call k is what the setup block declares for its step
AsDeclared(k) ==
  LET setup == scenario.setup
      op == calls[k].op
      n == Step(k)[2]
  IN  CASE Step(k)[1] = 1 ->
             /\ Has(setup, "directories")
             /\ n \in DOMAIN setup.directories
             /\ op.kind = "mkdir"
             /\ op.path = TestRoot \o setup.directories[n]
        [] Step(k)[1] = 2 ->
             /\ Has(setup, "files")
             /\ n \in DOMAIN setup.files
             /\ IF Step(k)[3] = 0
                THEN /\ op.kind = "mkdir"
                     /\ op.path \o <<setup.files[n].path[Len(setup.files[n].path)]>>
                          = TestRoot \o setup.files[n].path
                ELSE /\ op.kind = "write"
                     /\ op.path = TestRoot \o setup.files[n].path
                     /\ op.content = setup.files[n].content
        [] Step(k)[1] = 3 ->
             /\ Has(setup, "initNpm")
             /\ setup.initNpm
             /\ op.kind = "npm-init"
        [] Step(k)[1] = 4 ->
             /\ Has(setup, "dependencies")
             /\ setup.dependencies # <<>>
             /\ op.kind = "npm-install"

\* Provisioning is over and no step raised
Provisioned == pc \in {"command", "validate", "done"} /\ SetupRaises = {}

\* Every declared step has been performed
AllPerformed ==
  LET setup == scenario.setup
      done == {Step(k) : k \in SetupCalls}
  IN  /\ Has(setup, "directories") =>
           \A i \in DOMAIN setup.directories : <<1, i, 0>> \in done
      /\ Has(setup, "files") =>
           \A j \in DOMAIN setup.files : <<2, j, 1>> \in done
      /\ (Has(setup, "initNpm") /\ setup.initNpm) => <<3, 1, 0>> \in done
      /\ (Has(setup, "dependencies") /\ setup.dependencies # <<>>) =>
           <<4, 1, 0>> \in done

InOrder ==
  /\ \A i, j \in SetupCalls : i < j => StepBefore(Step(i), Step(j))
  /\ \A k \in SetupCalls : AsDeclared(k)
  /\ (Has(scenario, "setup") /\ Provisioned) => AllPerformed

WriteCalls == {k \in SetupCalls : calls[k].op.kind = "write"}

\* The call before write call k created the parent directory of its file
ParentCreatedBefore(k) ==
  /\ k > 1
  /\ calls[k - 1].op.kind = "mkdir"
  /\ calls[k - 1].op.path = parentDir(calls[k].op.path)
  /\ Step(k - 1) = <<2, Step(k)[2], 0>>

\* C8 as stated: provisioning performs the declared directories, then for
\* each declared file its parent directory creation followed by the file
\* write, then npm init, then the dependency install; absent fields are
\* skipped and nothing is performed out of this order.
C8_ParentCreatedForEveryFile ==
  /\ InOrder
  /\ \A k \in WriteCalls : ParentCreatedBefore(k)

\* C8 as amended: the same order, where the parent directory of a file is
\* created right before the write exactly when that parent is not the
\* working root /test itself.
C8_ProvisioningOrder ==
  /\ InOrder
  /\ \A k \in WriteCalls :
       IF parentDir(calls[k].op.path) # TestRoot
       THEN ParentCreatedBefore(k)
       ELSE \A i \in SetupCalls : Step(i) # <<2, Step(k)[2], 0>>

\* A completed provisioning of two directories, a file in a sub-directory
\* and a file in the working root, npm init and dependencies
C8_Witness ==
  /\ Has(scenario, "setup")
  /\ Provisioned
  /\ CommandCalls # {}
  /\ \E i, j, k, m, n \in SetupCalls :
       /\ Step(i) = <<1, 2, 0>>
       /\ Step(j)[1] = 2 /\ parentDir(calls[j].op.path) = TestRoot
       /\ Step(k)[1] = 2 /\ Step(k)[3] = 0
       /\ Step(m)[1] = 3
       /\ Step(n)[1] = 4

DeclaredDependencies ==
  IF Has(scenario, "setup") /\ Has(scenario.setup, "dependencies")
  THEN scenario.setup.dependencies
  ELSE <<>>

\* C9: the dependencies are installed in one batched invocation.  There is
\* never more than one install invocation and none when dependencies is
\* empty or absent; once provisioning is over (no step raised) there is
\* exactly one when dependencies is non-empty, and it names every declared
\* dependency.
C9_OneInstall ==
  /\ Cardinality(InstallCalls) <= 1
  /\ DeclaredDependencies = <<>> => InstallCalls = {}
  /\ (Provisioned /\ DeclaredDependencies # <<>>) =>
       Cardinality(InstallCalls) = 1
  /\ \A k \in InstallCalls :
       SplitOn(calls[k].op.deps, " ")
         = [i \in DOMAIN DeclaredDependencies |-> <<DeclaredDependencies[i]>>]

\* Two or more dependencies were installed and the run went on
C9_Witness ==
  /\ pc = "done"
  /\ Provisioned
  /\ Len(DeclaredDependencies) >= 2
  /\ Cardinality(InstallCalls) = 1

\* C10: provisioning fails by propagating the first executor failure.  The
\* call that raised is the last call of the run and its message is what
\* runScenario caught; the step that raises, like every provisioning step,
\* removes no directory and no file, and nothing changes afterwards.
C10_FirstFailurePropagates ==
  /\ [](\A k \in SetupRaises :
          /\ k = Len(calls)
          /\ pc = "done"
          /\ caught = calls[k].err)
  /\ [][ /\ SetupRaises # {} => (calls' = calls /\ fs' = fs)
         /\ pc = "setup" =>
              /\ fs.dirs \subseteq fs'.dirs
              /\ \A f \in DOMAIN fs.files : f \in DOMAIN fs'.files ]_vars

\* A step raised after earlier steps had created a directory and a file
C10_Witness ==
  /\ SetupRaises # {}
  /\ fs.dirs # {TestRoot}
  /\ fs.files # <<>>

\* The buffers after the listener has handled the chunks, in order
RECURSIVE DecodeAll(_, _)
DecodeAll(e, chunks) ==
  IF chunks = <<>> THEN e
  ELSE DecodeAll(OnData(e, Head(chunks)), Tail(chunks))

Decoded(chunks) ==
  ExecResult(DecodeAll([stdout |-> <<>>, stderr |-> <<>>, exit |-> <<0>>],
                       chunks))

\* The chunks of at least 8 bytes
RECURSIVE WithoutShort(_)
WithoutShort(chunks) ==
  IF chunks = <<>> THEN <<>>
  ELSE (IF ChunkLength(Head(chunks)) < 8 THEN <<>> ELSE <<Head(chunks)>>)
         \o WithoutShort(Tail(chunks))

\* C11: whatever frames the process wrote and however the stream was cut
\* into chunks, the stdout returned is the trimmed concatenation of the
\* payloads of the frames tagged 1 and the stderr that of the frames tagged
\* 2; chunks shorter than 8 bytes contribute nothing, and decoding the
\* delivered chunks again gives the result returned.
C11_Demultiplexing ==
  \A k \in CommandCalls :
    calls[k].status = "returned" =>
      /\ cmdResult.stdout = Trim(calls[k].printed[1])
      /\ cmdResult.stderr = Trim(calls[k].printed[2])
      /\ Decoded(WithoutShort(calls[k].delivered)).stdout = cmdResult.stdout
      /\ Decoded(WithoutShort(calls[k].delivered)).stderr = cmdResult.stderr
      /\ Decoded(calls[k].delivered).stdout = cmdResult.stdout
      /\ Decoded(calls[k].delivered).stderr = cmdResult.stderr

\* The calls whose output stream reported an error
BrokenCalls == {k \in CallIds : calls[k].stream = "error"}

\* C12: executeCommand returns a result only after the output stream has
\* ended: a call that returned had its stream ended, and a call whose
\* stream is still open is pending.  A call whose stream reported an error
\* raised that error, has no exit code, stdout or stderr, and never returns
\* afterwards.
C12_ReturnsOnlyAfterEnd ==
  /\ [](\A k \in CallIds :
          /\ calls[k].status = "returned" =>
               (calls[k].stream = "ended" /\ calls[k].exitCode # <<>>)
          /\ calls[k].stream \in {"none", "open"} =>
               calls[k].exitCode = <<>>
          /\ calls[k].stream = "open" => calls[k].status = "pending"
          /\ calls[k].stream = "error" =>
               /\ calls[k].status = "raised"
               /\ calls[k].err \in {<<e>> : e \in StreamErrors}
               /\ calls[k].exitCode = <<>>
               /\ calls[k].op.kind = "command" => cmdResult = <<>>)
  /\ [][\A k \in BrokenCalls :
          /\ calls'[k].status = "raised"
          /\ calls'[k].exitCode = <<>>]_vars

\* The stream of the command under test broke after output had arrived
C12_Witness ==
  /\ \E k \in BrokenCalls : calls[k].op.kind = "command"
  /\ exec.stdout # <<>>
  /\ pc = "done"
  /\ cmdResult = <<>>

\* The reads of fileContents entries, and those that raised
ReadCalls == {k \in CallIds : calls[k].op.kind = "cat"}

ReadRaises == {k \in ReadCalls : Raised(k)}

CommandCall == CHOOSE k \in CallIds : calls[k].op.kind = "command"

\* C13: a read of a fileContents entry that fails adds exactly one message,
\* naming the entry's path and the failure, and nothing else for the entry;
\* validation goes on with the next entry, every entry is read, and the
\* result carries the exit code and the output of the command under test.
C13_ReadFailureSkipsEntry ==
  /\ [][\A k \in DOMAIN calls' :
          ( /\ calls'[k].op.kind = "cat"
            /\ calls'[k].status = "raised"
            /\ (k \notin DOMAIN calls \/ calls[k].status = "pending") ) =>
            /\ errors' =
                 Append(errors,
                        <<"Failed to read file ">>
                          \o PathText(scenario.validate
                                        .fileContents[calls'[k].op.n].path)
                          \o <<": ">> \o calls'[k].err[1])
            /\ pc' = "validate"
            /\ idx' = idx + 1]_vars
  /\ []((ReadRaises # {} /\ pc = "done") =>
          /\ caught = <<>>
          /\ {calls[k].op.n : k \in ReadCalls}
               = DOMAIN scenario.validate.fileContents
          /\ Cardinality(ReadCalls) = Len(scenario.validate.fileContents)
          /\ result.passed = FALSE
          /\ result.exitCode = calls[CommandCall].exitCode[1]
          /\ result.stdout = Trim(calls[CommandCall].printed[1])
          /\ result.stderr = Trim(calls[CommandCall].printed[2]))

\* The read of the first of two entries raised, the second file was read
\* and checked, and the command had exited with code 0
C13_Witness ==
  /\ pc = "done"
  /\ Has(scenario, "validate")
  /\ Has(scenario.validate, "fileContents")
  /\ Len(scenario.validate.fileContents) = 2
  /\ Cardinality(ReadCalls) = 2
  /\ Raised(ReadCall(1))
  /\ calls[ReadCall(2)].status = "returned"
  /\ Len(errors) >= 2
  /\ result.exitCode = 0
  /\ result.stdout = Hi

\* The messages a fileContents entry calls for, given the content of its
\* file: one for an equals that differs after trimming both sides, one for
\* each contains matcher the content does not match, one for each
\* notContains matcher it matches
ExpectedFileMessages(c, content) ==
  (IF Has(c, "equals") /\ Trim(content) # Trim(c.equals) THEN 1 ELSE 0)
    + (IF Has(c, "contains")
       THEN Cardinality({j \in DOMAIN c.contains :
                           ~Matches(c.contains[j], content)})
       ELSE 0)
    + (IF Has(c, "notContains")
       THEN Cardinality({j \in DOMAIN c.notContains :
                           Matches(c.notContains[j], content)})
       ELSE 0)

RECURSIVE ExpectedFileMessagesUpTo(_)
ExpectedFileMessagesUpTo(n) ==
  IF n = 0 THEN 0
  ELSE LET c == scenario.validate.fileContents[n]
       IN  ExpectedFileMessages(c, fs.files[InTestRoot(c.path)])
             + ExpectedFileMessagesUpTo(n - 1)

\* The messages about the content of files that were read
FileMessages == {j \in DOMAIN errors : Head(errors[j]) = "File "}

\* Every fileContents entry names a file that is there and was read
AllRead ==
  /\ Has(scenario.validate, "fileContents")
  /\ \A i \in DOMAIN scenario.validate.fileContents :
       /\ InTestRoot(scenario.validate.fileContents[i].path)
            \in DOMAIN fs.files
       /\ calls[ReadCall(i)].status = "returned"

\* C14: for files that are read, equals compares the content of the file
\* and the expected text after trimming both, contains and notContains are
\* evaluated on the content of the file as it is (not trimmed) and whatever
\* the outcome of equals: the messages about file contents are one per
\* equals mismatch, one per contains matcher that does not match and one
\* per notContains matcher that matches.
C14_FileContentChecks ==
  (Validated /\ AllRead) =>
    Cardinality(FileMessages)
      = ExpectedFileMessagesUpTo(Len(scenario.validate.fileContents))

\* A run of runScenario in which no call raised ends as the one-step
\* account of runScenario says
OneStepAgrees ==
  (pc = "done" /\ \A k \in CallIds : ~Raised(k)) =>
    \E run \in ScenarioRuns(scenario, EmptyFs) :
      run.result = result /\ run.fs = fs


\* The existence checks of the validator whose executor call raised
ExistenceRaises ==
  {k \in ValidateCalls : calls[k].op.kind = "test-f" /\ Raised(k)}

\* C26: when the executor call of a filesExist or filesNotExist check has
\* raised, the validation stops there (no further call is made) and
\* runScenario returns the synthesized failure: passed false, exitCode 1,
\* empty stdout, the message of the exception as stderr and error, and none
\* of the messages collected before
C26_ExistenceCheckRaiseAborts ==
  \A k \in ExistenceRaises :
    /\ k = Len(calls)
    /\ pc = "done"
    /\ caught = calls[k].err
    /\ ~result.passed
    /\ result.exitCode = 1
    /\ result.stdout = <<>>
    /\ result.stderr = calls[k].err[1]
    /\ result.error = calls[k].err[1]

\* The command exited with 0 and printed its greeting, an assertion had
\* failed with a message, then the executor call of an existence check
\* raised
C26_Witness ==
  /\ pc = "done"
  /\ ExistenceRaises # {}
  /\ errors # <<>>
  /\ calls[CommandCall].exitCode = <<0>>
  /\ Trim(calls[CommandCall].printed[1]) # <<>>

(***************************************************************************)
(* Campaign properties (SpecCampaign).                                     *)
(***************************************************************************)
\* The entries of the trace of a kind, as positions
Entries(kind) == {i \in DOMAIN trace : trace[i].kind = kind}

\* The entries of a kind about one container
EntriesIn(kind, id) == {i \in Entries(kind) : trace[i].container = id}

Activities == {i \in DOMAIN trace : trace[i].kind \in {"scenario", "test"}}

\* The last thing the try block of testPackage did
LastInTry ==
  LET before == {i \in DOMAIN trace :
                   trace[i].kind \notin {"cleanup", "stop", "remove"}}
  IN  trace[CHOOSE i \in before : \A j \in before : j <= i]

\* The scenario and test entries of the trace from position i on, in order
RECURSIVE ActivitiesFrom(_)
ActivitiesFrom(i) ==
  IF i > Len(trace) THEN <<>>
  ELSE (IF trace[i].kind \in {"scenario", "test"} THEN <<trace[i]>>
        ELSE <<>>) \o ActivitiesFrom(i + 1)

\* Every scenario of the list generated for a container and every default
\* test of every command has run once in the container
AllRan(id) ==
  LET scenarios == EntriesIn("scenario", id)
      tests == EntriesIn("test", id)
  IN  /\ \A g \in EntriesIn("generated", id) :
           /\ Cardinality(scenarios) = trace[g].n
           /\ {trace[i].n : i \in scenarios} = 1..trace[g].n
      /\ ~testConfig.skipDefaultTests =>
           /\ Cardinality(tests) = 3 * Len(packageInfo.commands)
           /\ {trace[i].argv : i \in tests}
                = {<<packageInfo.commands[c].name>> \o args :
                     c \in DOMAIN packageInfo.commands,
                     args \in { <<"--help">>, <<"--version">>, <<>> }}

\* The containers runTests has finished with: those followed by the next
\* createTestContainer call, and all of them once runTests has returned
Finished ==
  LET creates == Entries("create")
      asked == creates \cup Entries("create-failed")
  IN  {trace[k].container :
         k \in {i \in creates :
                  \/ Has(outcome, "summary")
                  \/ \E j \in asked : i < j}}

\* C15: a failing scenario or default test never stops the campaign: the
\* campaign is never rejected out of a scenario or a test, every scenario
\* and test that ran has its own result, and in a campaign with a failed
\* result every generated scenario and every default test of every command
\* has run in each container runTests has finished with, one container per
\* node version when it returns
C15_FailuresAreData ==
  /\ (stage \in {"finally", "rejected"} /\ Has(outcome, "error"))
       => LastInTry.kind \notin {"scenario", "test"}
  /\ LET ran == ActivitiesFrom(1)
     IN  /\ Len(results) = Len(ran)
         /\ \A k \in DOMAIN ran : ran[k].result = k
  /\ (\E i \in DOMAIN results : ~results[i].passed)
       => /\ \A id \in Finished : AllRan(id)
          /\ Has(outcome, "summary") =>
               Cardinality(Entries("create")) = Len(testConfig.nodeVersions)

\* A campaign over two node versions has returned; a scenario and a default
\* test of the first container failed and results follow them
C15_Witness ==
  /\ stage = "returned"
  /\ Len(testConfig.nodeVersions) = 2
  /\ \E i \in Entries("scenario"), j \in Entries("test") :
       /\ trace[i].container = "c1"
       /\ trace[j].container = "c1"
       /\ ~results[trace[i].result].passed
       /\ ~results[trace[j].result].passed
       /\ trace[j].result < Len(results)

\* C16: no two scenario runs of a campaign receive the same container id,
\* and no scenario run finds files or directories left by another one
C16_OwnEnvironment ==
  /\ \A i, j \in Entries("scenario") :
       i # j => trace[i].container # trace[j].container
  /\ \A i \in Entries("scenario") : trace[i].found = EmptyFs

\* The commands executed in the containers after the installation: the
\* help request of the scenario generator, the scenarios and the default
\* tests
Commands ==
  {i \in DOMAIN trace : trace[i].kind \in {"help", "scenario", "test"}}

\* C17: the package is installed exactly once in the container of each node
\* version, after createTestContainer has returned the container and before
\* any scenario or default test command is executed in it
C17_InstalledOnceFirst ==
  LET creates == Entries("create")
      installs == Entries("install")
      commands == Commands
  IN  /\ Cardinality({trace[k].container : k \in creates})
           = Cardinality(creates)
      /\ \A k \in creates :
           LET id == trace[k].container
               here == {i \in installs : trace[i].container = id}
           IN  /\ trace[k].version =
                    testConfig.nodeVersions[
                      Cardinality({j \in creates : j <= k})]
               /\ Cardinality(here) =
                    IF stage = "install" /\ Container = id THEN 0 ELSE 1
               /\ \A i \in here :
                    /\ k < i
                    /\ \A c \in commands :
                         trace[c].container = id => i < c
      /\ \A i \in installs \cup commands :
           \E k \in creates : trace[k].container = trace[i].container

\* A campaign over two node versions has returned; scenarios and default
\* tests ran in both containers
C17_Witness ==
  /\ stage = "returned"
  /\ Cardinality(Entries("create")) = 2
  /\ \A k \in Entries("create") :
       /\ EntriesIn("scenario", trace[k].container) # {}
       /\ EntriesIn("test", trace[k].container) # {}
       /\ EntriesIn("install", trace[k].container) # {}

\* C18: when the docker ping fails testPackage raises the error of the
\* Docker check: no container is created or asked for, nothing is
\* installed, no scenario or test is executed, no result and no summary
\* exists
C18_DockerUnavailableRaises ==
  ~docker.up =>
    /\ Entries("create") \cup Entries("create-failed") = {}
    /\ Entries("install") \cup Entries("help") \cup Entries("generated") = {}
    /\ Activities = {}
    /\ results = <<>>
    /\ docker.held = <<>>
    /\ ~Has(outcome, "summary")
    /\ stage # "returned"
    /\ Entries("ping") # {} =>
         /\ outcome = [error |-> DockerUnavailable]
         /\ stage \in {"finally", "rejected"}

\* testPackage has rejected with the error of the Docker check
C18_Witness ==
  /\ ~docker.up
  /\ stage = "rejected"
  /\ Entries("ping") # {}
  /\ outcome = [error |-> DockerUnavailable]

\* The test activity of a campaign: everything but the cleanup
TestActivity ==
  {i \in DOMAIN trace : trace[i].kind \notin {"cleanup", "stop", "remove"}}

\* testPackage has completed
Completed == stage \in {"returned", "rejected"}

\* The stop and the remove of one container in a cleanup without
\* keepContainers
StoppedAndRemoved(id, cleanups) ==
  LET stops == EntriesIn("stop", id)
      removes == EntriesIn("remove", id)
  IN  /\ Cardinality(stops) = 1
      /\ Cardinality(removes) = 1
      /\ \A c \in cleanups, a \in stops, b \in removes :
           /\ c < a /\ a < b
           /\ trace[b].ok => id \notin DOMAIN docker.held
           /\ (trace[a].ok /\ ~trace[b].ok)
                => docker.held[id].status = "exited"

\* C19: cleanup is invoked once, after the last test activity and before
\* testPackage completes, whatever the outcome; with keepContainers false
\* every tracked container gets one stop and then one remove and the
\* tracked set is emptied, a container whose removal docker carried out is
\* gone; with keepContainers true nothing is stopped or removed and the
\* tracked set is unchanged
C19_CleanupOnce ==
  LET created == {trace[k].container : k \in Entries("create")}
  IN  IF ~Completed
      THEN /\ \A i \in DOMAIN trace :
                trace[i].kind \notin {"cleanup", "stop", "remove"}
           /\ containers = created
      ELSE LET cleanups == Entries("cleanup")
           IN  /\ Cardinality(cleanups) = 1
               /\ \A k \in cleanups :
                    /\ \A i \in TestActivity : i < k
                    /\ trace[k].keepContainers = testConfig.keepContainers
               /\ IF testConfig.keepContainers
                  THEN /\ Entries("stop") \cup Entries("remove") = {}
                       /\ containers = created
                       /\ \A id \in containers :
                            /\ id \in DOMAIN docker.held
                            /\ docker.held[id].status = "running"
                  ELSE /\ containers = {}
                       /\ \A id \in created :
                            StoppedAndRemoved(id, cleanups)
                       /\ \A i \in Entries("stop") \cup Entries("remove") :
                            trace[i].container \in created

\* testPackage was rejected by a failed installation in the second
\* container and both containers were stopped and removed
C19_Witness ==
  /\ stage = "rejected"
  /\ ~testConfig.keepContainers
  /\ LastInTry.kind = "install"
  /\ Cardinality(Entries("create")) = 2
  /\ Cardinality(Entries("remove")) = 2
  /\ docker.held = <<>>

\* The order README and runTests give to the default tests
ClaimedOrder == << <<"--help">>, <<"--version">>, <<>> >>

\* The default tests of a campaign, by node version, then command, then
\* ClaimedOrder
ExpectedTests ==
  LET nc == Len(packageInfo.commands)
      nv == Len(testConfig.nodeVersions)
  IN  [k \in 1..(nv * nc * 3) |->
         [version |-> testConfig.nodeVersions[((k - 1) \div (nc * 3)) + 1],
          command |-> packageInfo.commands[(((k - 1) \div 3) % nc) + 1],
          args |-> ClaimedOrder[((k - 1) % 3) + 1]]]

\* The test entries of the trace, in order
RECURSIVE TestsFrom(_)
TestsFrom(i) ==
  IF i > Len(trace) THEN <<>>
  ELSE (IF trace[i].kind = "test" THEN <<trace[i]>> ELSE <<>>)
         \o TestsFrom(i + 1)

LastIs(kind) == trace # <<>> /\ trace[Len(trace)].kind = kind

RECURSIVE PassedAmong(_)
PassedAmong(rs) ==
  IF rs = <<>> THEN 0
  ELSE (IF Head(rs).passed THEN 1 ELSE 0) + PassedAmong(Tail(rs))

\* C27: the summary testPackage returns has the results of runTests, their
\* number as total, the number of those that passed as passed,
\* total = passed + failed, and success exactly when failed = 0 (also
\* when there is no result)
C27_SummaryArithmetic ==
  Has(outcome, "summary") =>
    LET s == outcome.summary
    IN  /\ s.results = results
        /\ s.total = Len(s.results)
        /\ s.passed = PassedAmong(s.results)
        /\ s.total = s.passed + s.failed
        /\ s.success <=> s.failed = 0

\* testPackage has returned a summary with results that passed and results
\* that failed
C27_Witness ==
  /\ stage = "returned"
  /\ Has(outcome, "summary")
  /\ outcome.summary.passed > 0
  /\ outcome.summary.failed > 0
  /\ ~outcome.summary.success

\* C28: every container createTestContainer has created in docker is in the
\* tracked set until cleanup runs, also when its inspect or start failed,
\* and after a cleanup(false) whose removals all succeeded docker holds
\* none of the containers the manager created
C28_CreatedAreTracked ==
  LET cleanups == Entries("cleanup")
  IN  /\ (stage # "idle" /\ cleanups = {}) =>
           DOMAIN docker.held \subseteq containers
      /\ ( /\ Completed
           /\ \E c \in cleanups : ~trace[c].keepContainers
           /\ \A r \in Entries("remove") : trace[r].ok ) =>
            docker.held = <<>>

\* C29: a cleanup(false) never makes testPackage fail; whatever stop or
\* remove failed in it, every container that was tracked has had its
\* removal attempted, after its stop also when the stop failed, and the
\* tracked set is empty when it returns
C29_CleanupSwallowsFailures ==
  (Completed /\ \E c \in Entries("cleanup") : ~trace[c].keepContainers) =>
    LET tracked == {trace[i].container : i \in Entries("create")}
        stops == Entries("stop")
        removes == Entries("remove")
    IN  /\ containers = {}
        /\ Has(outcome, "summary") => stage = "returned"
        /\ {trace[i].container : i \in removes} = tracked
        /\ Cardinality(removes) = Cardinality(tracked)
        /\ \A i \in stops :
             \E j \in removes :
               j > i /\ trace[j].container = trace[i].container

\* testPackage has returned its summary after a cleanup of two containers
\* in which the stop of one failed: both were removed
C29_Witness ==
  /\ stage = "returned"
  /\ Cardinality(Entries("remove")) = 2
  /\ \E i \in Entries("stop") : ~trace[i].ok
  /\ \A j \in Entries("remove") : trace[j].ok
  /\ docker.held = <<>>
  /\ containers = {}

\* The container created last before entry i of the trace
ContainerAt(i) ==
  LET before == {j \in Entries("create") : j < i}
  IN  trace[CHOOSE j \in before : \A k \in before : k <= j].container

\* C30: when the generation of AI scenarios has raised for a node version,
\* runTests goes on: as long as the ERROR event is the last thing done
\* nothing is being thrown, and until runTests returns the default tests
\* or the next node version come next; the results
\* of the scenarios and tests that ran before are kept; and a campaign
\* that returns has run the three default tests of every command in the
\* container of that node version (unless skipDefaultTests) and has
\* created a container for every node version
C30_AiFailureGoesOn ==
  /\ LastIs("event") =>
        /\ trace[Len(trace)].stage = "ERROR"
        /\ ~Has(outcome, "error")
        /\ outcome = <<>> =>
             stage = IF testConfig.skipDefaultTests
                         \/ packageInfo.commands = <<>>
                      THEN "version" ELSE "tests"
        /\ \A j \in Activities : trace[j].result <= Len(results)
  /\ Has(outcome, "summary") =>
        LET events == Entries("event")
        IN  events # {} =>
              /\ outcome.summary.results = results
              /\ \A j \in Activities : trace[j].result <= Len(results)
              /\ Cardinality(Entries("create")) = Len(testConfig.nodeVersions)
              /\ \A i \in events :
                   Cardinality(EntriesIn("test", ContainerAt(i)))
                     = IF testConfig.skipDefaultTests THEN 0
                       ELSE 3 * Len(packageInfo.commands)

\* The AI provider failed for the first of two node versions, and
\* testPackage has returned the results of the default tests of both
C30_Witness ==
  /\ stage = "returned"
  /\ Len(testConfig.nodeVersions) = 2
  /\ \E i \in Entries("event") :
       /\ trace[i].message \in ProviderErrors
       /\ ContainerAt(i) = ContainerId(1)
  /\ Cardinality(EntriesIn("test", ContainerId(1))) = 3
  /\ Cardinality(EntriesIn("test", ContainerId(2))) = 3
  /\ Len(results) = 6

\* C24: a campaign with config.parallel true that has run default tests
\* for two node versions or two commands has run some of its tests
\* concurrently: one of them was started while another was in flight
C24_ParallelRunsConcurrently ==
  (stage = "returned" /\ testConfig.parallel) =>
    LET tests == Entries("test")
    IN  (\E i, j \in tests : \/ trace[i].version # trace[j].version
                              \/ trace[i].argv[1] # trace[j].argv[1]) =>
          \E i \in tests : trace[i].inFlight # {}

\* Whatever config.parallel is, no default test starts while another is in
\* flight
NoTestsOverlap ==
  LastIs("test") => trace[Len(trace)].inFlight = {}

(***************************************************************************)
(* npm authentication: DockerManager.installPackage and                    *)
(* DockerManager.configureNpmAuth called by a client on running            *)
(* containers.  trace records every call and, after it, the calls it made  *)
(* in turn; docker.held has the files of each container.                   *)
(***************************************************************************)
MaxCalls == 2

\* An npm token, or none (undefined)
NpmTokens == Optional("token", {<<"npm-token">>, <<"token123">>})

\* A registry URL, or none: scheme, host and what follows the host
NpmRegistries ==
  Optional("registry", { <<"https://", "npm.custom.com">>,
                         <<"https://", "npm.pkg.github.com", "/">> })

AuthContainers == {"c1", "c2"}

\* "/root/.npmrc"
Npmrc == <<"root", ".npmrc">>

\* A container with the home directory of root and an empty working root
HomeFs == [dirs |-> {TestRoot, <<"root">>}, files |-> <<>>]

\* new URL(registry).host
URLHost(url) == url[2]

RegistryLine(url) == <<"registry=">> \o url

AuthTokenLine(host, token) == <<"//", host, "/:_authToken=">> \o token

AlwaysAuthLine == <<"always-auth=true">>

\* The lines of the .npmrc for a token and a registry
NpmrcLines(a) ==
  (IF Has(a, "registry") THEN <<RegistryLine(a.registry)>> ELSE <<>>)
    \o
  (IF Has(a, "token")
   THEN << AuthTokenLine(IF Has(a, "registry") THEN URLHost(a.registry)
                         ELSE "registry.npmjs.org",
                         a.token),
           AlwaysAuthLine >>
   ELSE <<>>)

configureNpmAuthAlways(a) == <<createFile(Npmrc, Join(NpmrcLines(a), "\n"))>>

\* configureNpmAuth(container, token, registry): the files it creates in
\* the container
configureNpmAuth(a) ==
  IF ~Has(a, "token") /\ ~Has(a, "registry") THEN <<>>
  ELSE <<createFile(Npmrc, Join(NpmrcLines(a), "\n"))>>

\* installPackage(container, package, onProgress, token, registry): the
\* calls it makes on the manager, in order
installPackage(package, a) ==
  <<[kind |-> "executeCommand", argv |-> <<"npm", "install", "-g", package>>]>>

\* The calls a call makes, as entries of the trace for container c
Made(c, called) == [i \in DOMAIN called |-> called[i] @@ [container |-> c]]

\* The file system after the files of the given createFile calls are written
RECURSIVE FilesCreated(_, _)
FilesCreated(f, created) ==
  IF created = <<>> THEN f
  ELSE FilesCreated(
         (CHOOSE o \in ProcessOutcomes(Head(created), f) : TRUE).fs,
         Tail(created))

\* The calls the client has made
ClientCalls ==
  Cardinality({i \in DOMAIN trace :
                 trace[i].kind \in {"installPackage", "configureNpmAuth"}})

AuthInit ==
  /\ ScenarioIdle
  /\ config = <<>>
  /\ packageInfo = <<>>
  /\ stage = "client"
  /\ loop = NoLoop
  /\ results = <<>>
  /\ outcome = <<>>
  /\ containers = AuthContainers
  /\ docker = [up |-> TRUE, created |-> Cardinality(AuthContainers),
               held |-> [c \in AuthContainers |->
                           [status |-> "running", fs |-> HomeFs,
                            nodeVersion |-> "20"]]]
  /\ trace = <<>>
  /\ faults = 0

\* A client calls configureNpmAuth
ConfigureNpmAuthCall ==
  /\ stage = "client"
  /\ ClientCalls < MaxCalls
  /\ \E c \in containers, t \in NpmTokens, r \in NpmRegistries :
       LET created == configureNpmAuth(t @@ r)
       IN  /\ trace' = trace
                 \o <<[kind |-> "configureNpmAuth", container |-> c,
                       auth |-> t @@ r]>>
                 \o Made(c, created)
           /\ docker' = [docker EXCEPT
                           !.held[c].fs = FilesCreated(@, created)]
  /\ UNCHANGED <<config, packageInfo, stage, loop, results, outcome,
                 containers, faults>>
  /\ UNCHANGED <<scenarioVars, parked>>

\* A client calls installPackage
InstallPackageCall ==
  /\ stage = "client"
  /\ ClientCalls < MaxCalls
  /\ \E c \in containers, t \in NpmTokens, r \in NpmRegistries :
       /\ trace' = trace
             \o <<[kind |-> "installPackage", container |-> c,
                   package |-> "pkg", auth |-> t @@ r]>>
             \o Made(c, installPackage("pkg", t @@ r))
  /\ UNCHANGED <<config, packageInfo, stage, loop, results, outcome,
                 containers, docker, faults>>
  /\ UNCHANGED <<scenarioVars, parked>>

AuthNext ==
  \/ ConfigureNpmAuthCall
  \/ InstallPackageCall

SpecAuth == AuthInit /\ [][AuthNext]_vars

(***************************************************************************)
(* Properties of npm authentication.                                       *)
(***************************************************************************)
\* The file an entry of the trace is followed by, if it is followed by the
\* creation of one
CreatedAfter(i) ==
  IF i < Len(trace) /\ trace[i + 1].kind = "write"
  THEN <<trace[i + 1]>> ELSE <<>>

\* C22: every installPackage call first calls configureNpmAuth for its
\* container with the token and registry it was given (also when both are
\* undefined), and executes npm install -g <package> in the container
\* after that
C22_AuthBeforeInstall ==
  \A i \in DOMAIN trace :
    trace[i].kind = "installPackage" =>
      /\ i < Len(trace)
      /\ trace[i + 1] = [kind |-> "configureNpmAuth",
                         container |-> trace[i].container,
                         auth |-> trace[i].auth]
      /\ \E j \in (i + 2)..Len(trace) :
           trace[j] = [kind |-> "executeCommand",
                       container |-> trace[i].container,
                       argv |-> <<"npm", "install", "-g",
                                  trace[i].package>>]

\* The last configureNpmAuth call for container c that was given a token or
\* a registry, if there is one
LastAuth(c) ==
  LET given == {i \in DOMAIN trace :
                  /\ trace[i].kind = "configureNpmAuth"
                  /\ trace[i].container = c
                  /\ trace[i].auth # <<>>}
  IN  IF given = {} THEN <<>>
      ELSE <<CHOOSE i \in given : \A j \in given : j <= i>>

\* C23: configureNpmAuth creates a file exactly when it is given a token or
\* a registry, and the file is /root/.npmrc of its container: with a token
\* it has the _authToken entry of the registry's host (registry.npmjs.org
\* without a registry) and always-auth=true, with a registry it has
\* registry=<url>; a container has the file only from such a call
C23_NpmrcWhenAuthGiven ==
  /\ \A i \in DOMAIN trace :
       trace[i].kind = "configureNpmAuth" =>
         LET a == trace[i].auth
             created == CreatedAfter(i)
             host == IF Has(a, "registry") THEN a.registry[2]
                     ELSE "registry.npmjs.org"
         IN  /\ created # <<>> <=> (Has(a, "token") \/ Has(a, "registry"))
             /\ created # <<>> =>
                  /\ created[1].container = trace[i].container
                  /\ created[1].path = Npmrc
                  /\ Has(a, "token") =>
                       /\ Includes(created[1].content,
                                   <<"//", host, "/:_authToken=">>
                                     \o a.token)
                       /\ Includes(created[1].content,
                                   <<"always-auth=true">>)
                  /\ Has(a, "registry") =>
                       Includes(created[1].content,
                                <<"registry=">> \o a.registry)
  /\ stage = "client" =>
       \A c \in containers :
         LET last == LastAuth(c)
             files == docker.held[c].fs.files
         IN  /\ Npmrc \in DOMAIN files <=> last # <<>>
             /\ last # <<>> => files[Npmrc] = trace[last[1] + 1].content

\* configureNpmAuth was called without token and registry for one container,
\* which has no .npmrc, and with a token only for another, which has one
C23_Witness ==
  /\ stage = "client"
  /\ \E i, j \in DOMAIN trace :
       /\ trace[i].kind = "configureNpmAuth"
       /\ trace[i].auth = <<>>
       /\ Npmrc \notin DOMAIN docker.held[trace[i].container].fs.files
       /\ trace[j].kind = "configureNpmAuth"
       /\ Has(trace[j].auth, "token")
       /\ ~Has(trace[j].auth, "registry")
       /\ Npmrc \in DOMAIN docker.held[trace[j].container].fs.files

(***************************************************************************)
(* Two runScenario calls on two containers, made by independent call       *)
(* sites on the same ScenarioRunner.  One call runs at a time (a callback  *)
(* or the code between two awaits runs to its end); the other is parked,   *)
(* and the event loop may go on with either whenever one of them yields.   *)
(***************************************************************************)
\* A scenario that reads the file its command is to write
ReadsFile ==
  BaseScenario @@ ("validate" :> [fileContents |-> <<EqualsCheck>>])

PairScenarios == {LeaveFile, ExpectClean, ReadsFile}

LocalsSharingErrors ==
  [scenario |-> scenario, pc |-> pc, idx |-> idx, calls |-> calls,
   exec |-> exec, fs |-> fs, errors |-> parked.locals.errors,
   cmdResult |-> cmdResult, result |-> result, caught |-> caught]

\* What belongs to the call that is running: the parameters and locals of
\* runScenario, setupScenario, validateScenario and executeCommand, and the
\* file system of its container
Locals ==
  [scenario |-> scenario, pc |-> pc, idx |-> idx, calls |-> calls,
   exec |-> exec, fs |-> fs, errors |-> errors, cmdResult |-> cmdResult,
   result |-> result, caught |-> caught]

\* The container of the call that is running
Running == CHOOSE c \in containers : c # parked.container

PairInit ==
  /\ scenario \in PairScenarios
  /\ pc = "start"
  /\ idx = 1
  /\ calls = <<>>
  /\ exec = NoExec
  /\ fs = EmptyFs
  /\ errors = <<>>
  /\ cmdResult = <<>>
  /\ result = <<>>
  /\ caught = <<>>
  /\ parked \in { [container |-> "c2",
                   locals |-> [scenario |-> s, pc |-> "start", idx |-> 1,
                               calls |-> <<>>, exec |-> NoExec,
                               fs |-> EmptyFs, errors |-> <<>>,
                               cmdResult |-> <<>>, result |-> <<>>,
                               caught |-> <<>>]] : s \in PairScenarios }
  /\ config = <<>>
  /\ packageInfo = <<>>
  /\ stage = "pair"
  /\ loop = NoLoop
  /\ results = <<>>
  /\ outcome = <<>>
  /\ containers = {"c1", "c2"}
  /\ docker = [up |-> TRUE, created |-> 2,
               held |-> [c \in {"c1", "c2"} |->
                           [status |-> "running", nodeVersion |-> "20"]]]
  /\ trace = <<>>
  /\ faults = 0

\* The event loop goes on with the parked call
Switch ==
  /\ stage = "pair"
  /\ parked.locals.pc \notin {"done", "threw"}
  /\ parked' = [container |-> Running, locals |-> Locals]
  /\ scenario' = parked.locals.scenario
  /\ pc' = parked.locals.pc
  /\ idx' = parked.locals.idx
  /\ calls' = parked.locals.calls
  /\ exec' = parked.locals.exec
  /\ fs' = parked.locals.fs
  /\ errors' = parked.locals.errors
  /\ cmdResult' = parked.locals.cmdResult
  /\ result' = parked.locals.result
  /\ caught' = parked.locals.caught
  /\ UNCHANGED campaignVars

PairNext ==
  \/ Next
  \/ Switch

SpecPair == PairInit /\ [][PairNext]_vars

\* C25: of two runScenario calls running concurrently on two containers,
\* each one in which no executor call raised returns a result, and leaves
\* the files, that it can return and leave when it runs alone on a fresh
\* container; and the containers tracked, and those docker holds, stay
\* the ones there were when the calls were made
C25_ConcurrentRunsAsAlone ==
  stage = "pair" =>
    /\ containers = {"c1", "c2"}
    /\ DOMAIN docker.held = containers
    /\ (pc = "done" /\ \A k \in CallIds : ~Raised(k)) =>
         \E run \in ScenarioRuns(scenario, EmptyFs) :
           run.result = result /\ run.fs = fs
    /\ (parked.locals.pc = "done"
          /\ \A k \in DOMAIN parked.locals.calls :
               parked.locals.calls[k].status # "raised") =>
         \E run \in ScenarioRuns(parked.locals.scenario, EmptyFs) :
           /\ run.result = parked.locals.result
           /\ run.fs = parked.locals.fs

\* One call has returned a passing result while the other, which has
\* collected a message, is still validating
C25_Witness ==
  /\ stage = "pair"
  /\ pc = "done"
  /\ result.passed
  /\ \A k \in CallIds : ~Raised(k)
  /\ parked.locals.pc = "validate"
  /\ parked.locals.errors # <<>>
====
